---- MODULE Spec2Model ----
(***************************************************************************)
(* A model of the ingestion pipeline of sharepoint-chat-agui               *)
(* (src/ingest-function): the identifier generator, the embedding batcher  *)
(* and the indexing batcher.                                               *)
(*                                                                         *)
(* Text is modelled as a sequence of one-character strings, so that        *)
(* lengths, prefixes and suffixes are those of the Python strings.         *)
(***************************************************************************)
EXTENDS Integers, Sequences, FiniteSets, TLC

(***************************************************************************)
(* Bounds of the model.                                                    *)
(***************************************************************************)
\* longest source locator drawn, in characters
MaxUrlLen == 2
\* the clock runs from 0 to MaxClock seconds after the modelled midnight
MaxClock == 1
\* page numbers are drawn from 0..MaxPage
MaxPage == 10
\* max_length is drawn from 1..MaxLenRange, and the default
MaxLenRange == 20
\* longest page list given to the embedding batcher
MaxPages == 4
\* token counts of pages are drawn from 0..MaxTokenCount
MaxTokenCount == 3
\* max_tokens_per_batch is drawn from 0..MaxTokenLimit
MaxTokenLimit == 2
\* max_items_per_batch is drawn from 0..MaxItemLimit
MaxItemLimit == 2
\* longest document list given to the indexing batcher
MaxDocs == 3
\* longest "id" text of a document
MaxIdLen == 1
\* max_docs is drawn from 0..MaxDocsLimit
MaxDocsLimit == 2
\* max_bytes is drawn from 0..MaxBytesLimit
MaxBytesLimit == 24
\* longest document list given to validate_documents_shape
MaxValidated == 2
\* longest array posted to index_documents_endpoint
MaxBody == 3
\* largest batch size of the endpoint's batcher
MaxBatchDocs == 2
\* longest text given to _clean_summary_text
MaxSummaryLen == 3
\* longest page list given to analyze_document_content
MaxAnalysedPages == 2
\* most chunks the text splitter returns
MaxChunks == 3
\* most pieces a markdown given to split_markdown_by_pages is made of
MaxPieces == 4
\* most hours the offset of a datetime drawn is away from UTC
MaxUtcOffset == 1
\* most calls of the client getters, over both getters
MaxGetterCalls == 2
\* most pieces a markdown converted by the ingestion endpoint is made of
MaxConvertedPieces == 2

(***************************************************************************)
(* Program constants.                                                      *)
(***************************************************************************)
\* max_length's default value
DefaultMaxLength == 1024
\* the token count from which analyze_document_content uses map-reduce
SingleShotLimit == 100000
\* the vector length validate_documents_shape expects
VectorLength == 1536
\* length of hashlib.sha256(...).hexdigest()
HexDigestLen == 64

(***************************************************************************)
(* Characters and Python's string operations.                              *)
(***************************************************************************)
Min(a, b) == IF a <= b THEN a ELSE b

Max(a, b) == IF a >= b THEN a ELSE b

\* the characters locators are drawn from
Alphabet == {"a", "A", " ", "/", "#", "?", ";", ":"}

\* every text over Alphabet of length lo..hi
TextsOver(chars, lo, hi) == UNION {[1..n -> chars] : n \in lo..hi}

\* the present (truthy) locators: non-empty texts
Locators == TextsOver(Alphabet, 1, MaxUrlLen)

\* the value of an absent locator (None)
NoUrl == <<"None">>

\* s[:k], for any integer k (a negative k counts from the end)
PyPrefix(s, k) ==
    IF k >= 0 THEN SubSeq(s, 1, Min(k, Len(s)))
    ELSE SubSeq(s, 1, Max(Len(s) + k, 0))

\* s[k:], for k >= 0
PySuffixFrom(s, k) == SubSeq(s, Min(k, Len(s)) + 1, Len(s))

\* str.lower() of one character
LowerChar(c) == IF c = "A" THEN "a" ELSE c

\* str.lower()
Lower(s) == [i \in 1..Len(s) |-> LowerChar(s[i])]

\* the 0-based index of the first c in s at or after the 0-based start, or -1
Find(s, c, start) ==
    LET hits == {i \in Max(start, 0)..(Len(s) - 1) : s[i + 1] = c}
    IN  IF hits = {} THEN -1 ELSE CHOOSE i \in hits : \A j \in hits : i <= j

\* the 0-based index of the last c in s, or -1
RFind(s, c) ==
    LET hits == {i \in 0..(Len(s) - 1) : s[i + 1] = c}
    IN  IF hits = {} THEN -1 ELSE CHOOSE i \in hits : \A j \in hits : i >= j

\* c in s
Contains(s, c) == Find(s, c, 0) >= 0

\* str.lstrip(chars)
LStrip(s, chars) ==
    LET keep == {i \in 1..Len(s) : s[i] \notin chars}
    IN  IF keep = {} THEN <<>>
        ELSE SubSeq(s, CHOOSE i \in keep : \A j \in keep : i <= j, Len(s))

\* str.rstrip(chars)
RStrip(s, chars) ==
    LET keep == {i \in 1..Len(s) : s[i] \notin chars}
    IN  IF keep = {} THEN <<>>
        ELSE SubSeq(s, 1, CHOOSE i \in keep : \A j \in keep : i >= j)

\* the whitespace of the alphabet
Whitespace == {" "}

\* str.strip()
Strip(s) == LStrip(RStrip(s, Whitespace), Whitespace)

\* "0123456789abcdef"
HexDigits == <<"0", "1", "2", "3", "4", "5", "6", "7", "8", "9", "a", "b", "c", "d", "e", "f">>

RECURSIVE NatStr(_)
\* str(n) for n >= 0
NatStr(n) ==
    IF n < 10 THEN <<HexDigits[n + 1]>>
    ELSE NatStr(n \div 10) \o <<HexDigits[(n % 10) + 1]>>

\* str(n), as an f-string formats an int
IntStr(n) == IF n < 0 THEN <<"-">> \o NatStr(0 - n) ELSE NatStr(n)

\* n as exactly two decimal digits (strftime's %H, %M, %S)
TwoDigits(n) == <<HexDigits[(n \div 10) + 1], HexDigits[(n % 10) + 1]>>

(***************************************************************************)
(* urllib.parse, as generate_base_document_id uses it: urlparse of the     *)
(* lowered, stripped locator and urlunparse of the kept components.        *)
(* The alphabet holds no tab, CR, LF, '[' or ']', so urlsplit's removal of *)
(* unsafe bytes and its bracketed-host checks have nothing to act on.      *)
(***************************************************************************)
\* urllib.parse.uses_params
UsesParams ==
    {<<>>, <<"f", "t", "p">>, <<"h", "d", "l">>,
     <<"p", "r", "o", "s", "p", "e", "r", "o">>, <<"h", "t", "t", "p">>,
     <<"i", "m", "a", "p">>, <<"h", "t", "t", "p", "s">>,
     <<"s", "h", "t", "t", "p">>, <<"r", "t", "s", "p">>,
     <<"r", "t", "s", "p", "s">>, <<"r", "t", "s", "p", "u">>,
     <<"s", "i", "p">>, <<"s", "i", "p", "s">>, <<"m", "m", "s">>,
     <<"s", "f", "t", "p">>, <<"t", "e", "l">>}

\* urllib.parse.uses_netloc
UsesNetloc ==
    {<<>>, <<"f", "t", "p">>, <<"h", "t", "t", "p">>,
     <<"g", "o", "p", "h", "e", "r">>, <<"n", "n", "t", "p">>,
     <<"t", "e", "l", "n", "e", "t">>, <<"i", "m", "a", "p">>,
     <<"w", "a", "i", "s">>, <<"f", "i", "l", "e">>, <<"m", "m", "s">>,
     <<"h", "t", "t", "p", "s">>, <<"s", "h", "t", "t", "p">>,
     <<"s", "n", "e", "w", "s">>,
     <<"p", "r", "o", "s", "p", "e", "r", "o">>, <<"r", "t", "s", "p">>,
     <<"r", "t", "s", "p", "s">>, <<"r", "t", "s", "p", "u">>,
     <<"r", "s", "y", "n", "c">>, <<"s", "v", "n">>,
     <<"s", "v", "n", "+", "s", "s", "h">>, <<"s", "f", "t", "p">>,
     <<"n", "f", "s">>, <<"g", "i", "t">>,
     <<"g", "i", "t", "+", "s", "s", "h">>, <<"w", "s">>, <<"w", "s", "s">>}

\* the characters of urllib.parse.scheme_chars that the alphabet holds
SchemeChars == {"a", "A"}

\* urlsplit's leading strip of C0 control characters and spaces
C0ControlOrSpace == {" "}

\* the smallest member of a non-empty set of integers
Least(S) == CHOOSE i \in S : \A j \in S : i <= j

\* urllib.parse._splitnetloc(url, 2): <<netloc, rest>>
SplitNetloc(url) ==
    LET found == {Find(url, c, 2) : c \in {"/", "?", "#"}} \ {-1}
    IN  IF found = {} THEN <<PySuffixFrom(url, 2), <<>> >>
        ELSE <<SubSeq(url, 3, Least(found)), PySuffixFrom(url, Least(found))>>

\* urlsplit's scheme step: <<scheme, rest>>; a scheme is cut off when the
\* text before the first ':' starts with a letter and holds scheme_chars only
SplitScheme(url) ==
    LET i == Find(url, ":", 0)
    IN  IF /\ i > 0
           /\ url[1] \in {"a", "A"}
           /\ \A k \in 1..i : url[k] \in SchemeChars
        THEN <<Lower(PyPrefix(url, i)), PySuffixFrom(url, i + 1)>>
        ELSE << <<>>, url>>

\* urlsplit's netloc step: <<netloc, rest>>
SplitAuthority(url) ==
    IF PyPrefix(url, 2) = <<"/", "/">> THEN SplitNetloc(url) ELSE << <<>>, url>>

\* url.split(c, 1) when c is in url, else <<url, "">>
SplitOnce(url, c) ==
    LET i == Find(url, c, 0)
    IN  IF i >= 0 THEN <<PyPrefix(url, i), PySuffixFrom(url, i + 1)>>
        ELSE <<url, <<>> >>

\* urlsplit's last steps: the fragment is cut off first, then the query
SplitQueryFragment(scheme, netloc, cut) ==
    [scheme |-> scheme, netloc |-> netloc,
     path |-> SplitOnce(cut[1], "?")[1], query |-> SplitOnce(cut[1], "?")[2],
     fragment |-> cut[2]]

\* urlsplit once the scheme is cut off
SplitAfterScheme(scheme, authority) ==
    SplitQueryFragment(scheme, authority[1], SplitOnce(authority[2], "#"))

\* urlsplit once the leading characters are stripped
SplitStripped(cut) == SplitAfterScheme(cut[1], SplitAuthority(cut[2]))

\* urllib.parse.urlsplit(url): scheme, netloc, path, query, fragment
urlsplit(url) == SplitStripped(SplitScheme(LStrip(url, C0ControlOrSpace)))

\* urllib.parse._splitparams(url): <<path, params>>
SplitParams(url) ==
    LET i == IF Contains(url, "/") THEN Find(url, ";", RFind(url, "/"))
             ELSE Find(url, ";", 0)
    IN  IF i < 0 THEN <<url, <<>> >>
        ELSE <<PyPrefix(url, i), PySuffixFrom(url, i + 1)>>

\* urlparse's step after urlsplit: the params are cut off the path when the
\* scheme uses params and the path holds a ';'
ParseSplit(s) ==
    IF s.scheme \in UsesParams /\ Contains(s.path, ";")
    THEN [scheme |-> s.scheme, netloc |-> s.netloc,
          path |-> SplitParams(s.path)[1], params |-> SplitParams(s.path)[2],
          query |-> s.query, fragment |-> s.fragment]
    ELSE [scheme |-> s.scheme, netloc |-> s.netloc,
          path |-> s.path, params |-> <<>>,
          query |-> s.query, fragment |-> s.fragment]

\* urllib.parse.urlparse(url)
urlparse(url) == ParseSplit(urlsplit(url))

\* urlunsplit's first step: "//" and the netloc go before the path
UnsplitAuthority(scheme, netloc, url) ==
    IF \/ netloc # <<>>
       \/ /\ scheme # <<>>
          /\ scheme \in UsesNetloc
          /\ PyPrefix(url, 2) # <<"/", "/">>
    THEN <<"/", "/">> \o netloc \o
         (IF url # <<>> /\ url[1] # "/" THEN <<"/">> \o url ELSE url)
    ELSE url

\* urlunsplit's second step: the scheme goes before the rest
UnsplitScheme(scheme, url) ==
    IF scheme # <<>> THEN scheme \o <<":">> \o url ELSE url

\* urlunsplit's last steps: a non-empty part goes after its delimiter
UnsplitPart(url, delimiter, part) ==
    IF part # <<>> THEN url \o <<delimiter>> \o part ELSE url

\* urllib.parse.urlunsplit((scheme, netloc, url, query, fragment))
urlunsplit(scheme, netloc, url, query, fragment) ==
    UnsplitPart(
        UnsplitPart(UnsplitScheme(scheme, UnsplitAuthority(scheme, netloc, url)),
                    "?", query),
        "#", fragment)

\* urllib.parse.urlunparse((scheme, netloc, url, params, query, fragment))
urlunparse(scheme, netloc, url, params, query, fragment) ==
    urlunsplit(scheme, netloc, UnsplitPart(url, ";", params), query, fragment)

\* urlunparse of the parsed locator, the path without its trailing slashes,
\* the params and the fragment removed
NormalizeParsed(parsed) ==
    urlunparse(parsed.scheme, parsed.netloc, RStrip(parsed.path, {"/"}),
               <<>>, parsed.query, <<>>)

\* the locator as generate_base_document_id hashes it
normalized_url(url) == NormalizeParsed(urlparse(Strip(Lower(url))))

(***************************************************************************)
(* The identifier generator (function_app.py).                             *)
(***************************************************************************)
\* the code of a character of a normalized locator, 1..15
CharCode(c) ==
    CASE c = "a" -> 1 [] c = " " -> 2 [] c = "/" -> 3 [] c = "#" -> 4
      [] c = "?" -> 5 [] c = ";" -> 6 [] c = ":" -> 7 [] OTHER -> 8

\* hashlib.sha256(text).hexdigest(): HexDigestLen hex digits that depend on
\* the text alone, distinct texts (of up to HexDigestLen characters) having
\* distinct digests
Sha256Hex(text) ==
    [i \in 1..HexDigestLen |->
        IF i <= Len(text) THEN HexDigits[CharCode(text[i]) + 1] ELSE "0"]

\* the calendar day of the modelled clock, as strftime("%Y%m%d") prints it
ClockDay == <<"2", "0", "2", "5", "0", "1", "0", "1">>

\* datetime.utcnow().strftime("%Y%m%d_%H%M%S"), utcnow in seconds of the day
Timestamp(utcnow) ==
    ClockDay \o <<"_">> \o TwoDigits(utcnow \div 3600)
        \o TwoDigits((utcnow \div 60) % 60) \o TwoDigits(utcnow % 60)

\* "doc_"
DocPrefix == <<"d", "o", "c", "_">>

\* Python's truth of an Optional[str]: neither None nor ""
Truthy(url) == url # NoUrl /\ url # <<>>

\* generate_base_document_id that stamps every id with the clock
generate_base_document_id_stamped(url, maxlen, utcnow) ==
    LET id == DocPrefix \o Timestamp(utcnow)
    IN  IF Len(id) > maxlen THEN PyPrefix(id, maxlen) ELSE id

\* generate_base_document_id that never truncates
generate_base_document_id_untruncated(url, maxlen, utcnow) ==
    IF Truthy(url) THEN DocPrefix \o Sha256Hex(normalized_url(url))
    ELSE DocPrefix \o Timestamp(utcnow)

\* generate_base_document_id(url, max_length), called at time utcnow
generate_base_document_id(url, maxlen, utcnow) ==
    LET id == IF Truthy(url)
              THEN DocPrefix \o Sha256Hex(normalized_url(url))
              ELSE DocPrefix \o Timestamp(utcnow)
    IN  IF Len(id) > maxlen THEN PyPrefix(id, maxlen) ELSE id

\* f"_chunk_{page_number}"
ChunkSuffix(page) ==
    <<"_", "c", "h", "u", "n", "k", "_">> \o IntStr(page)

\* generate_chunk_id_from_base that truncates the whole id, suffix included
generate_chunk_id_from_base_cut(base_id, page, maxlen) ==
    PyPrefix(base_id \o ChunkSuffix(page), maxlen)

\* generate_chunk_id_from_base(base_document_id, page_number, max_length)
generate_chunk_id_from_base(base_id, page, maxlen) ==
    LET chunk_id == ChunkSuffix(page)
        id == base_id \o chunk_id
        prefix_length == maxlen - Len(chunk_id)
    IN  IF Len(id) > maxlen THEN PyPrefix(base_id, prefix_length) \o chunk_id
        ELSE id

\* generate_chunk_id(url, page_number, max_length), called at utcnow
generate_chunk_id(url, page, maxlen, utcnow) ==
    LET base_id == generate_base_document_id(url, maxlen, utcnow)
        chunk_id == ChunkSuffix(page)
        id == base_id \o chunk_id
        prefix_length == maxlen - Len(chunk_id)
    IN  IF Len(id) > maxlen THEN PyPrefix(base_id, prefix_length) \o chunk_id
        ELSE id

(***************************************************************************)
(* State.  The program's own state here is the clock that                  *)
(* generate_base_document_id reads; the other variables hold the arguments *)
(* and the result of the last call, as a caller sees them.                 *)
(***************************************************************************)
VARIABLES
    now,               \* datetime.utcnow(), in seconds of the modelled day
    last_call,         \* the function that returned last
    source_url,        \* argument source_url of the last call
    page_number,       \* argument page_number of the last call
    max_length,        \* argument max_length of the last call
    base_document_id,  \* the last base id (base_id of the callers)
    document_id,       \* the last chunk id
    called_at,         \* the clock's reading at the last call
    pinned,            \* the first chunk id built for the locator, and when
    other_url,         \* a second locator, for comparing two base ids
    other_id,          \* the base id of other_url
    pages,             \* the page list of group_pages_for_batch_embedding
    max_tokens_per_batch,
    max_items_per_batch,
    docs,              \* the documents given to chunk_documents_for_indexing
    max_docs,
    max_bytes,
    batches            \* the batches chunk_documents_for_indexing returned

idVars == <<now, last_call, called_at, source_url, page_number, max_length,
            base_document_id, document_id, pinned, other_url, other_id>>

embedVars == <<pages, max_tokens_per_batch, max_items_per_batch>>

indexVars == <<docs, max_docs, max_bytes, batches>>

VARIABLES
    validation_errors, \* what validate_documents_shape returned
    body_type,         \* what req.get_json() gives: an array, or not
    stage,             \* where index_documents_endpoint is
    b_idx,             \* the batch the endpoint's loop is at, 0-based
    submitted,         \* the batches the index client was called with
    outcomes,          \* per call of the index client, what it did
    all_results,
    total_indexed,
    total_failed,
    response           \* the HTTP response of the endpoint

endpointVars == <<validation_errors, body_type, stage, b_idx, submitted, outcomes,
                  all_results, total_indexed, total_failed, response>>

VARIABLES
    raw_summary,       \* the argument of _clean_summary_text
    cleaned,           \* _clean_summary_text(raw_summary)
    cleaned_again,     \* _clean_summary_text(cleaned)
    clean_calls        \* how often _clean_summary_text has been applied

cleanVars == <<raw_summary, cleaned, cleaned_again, clean_calls>>

VARIABLES
    analysis_stage,    \* where analyze_document_content is
    content_chunks,    \* the chunks of generate_map_reduce_summary
    chunk_summaries,   \* its section texts
    llm_calls,         \* the calls of the LLM chains, with their outcomes
    summary_text,      \* what generate_map_reduce_summary returned
    analysis_result,   \* what generate_single_shot_analysis returned
    analysis           \* what analyze_document_content returned

analysisVars == <<analysis_stage, content_chunks, chunk_summaries, llm_calls,
                  summary_text, analysis_result, analysis>>

VARIABLES
    full_markdown,     \* the markdown of the document
    tokenizer_ok,      \* whether tiktoken's encoding can be loaded
    page_records,      \* what split_markdown_by_pages returned
    split_done         \* whether split_markdown_by_pages has returned

splitVars == <<full_markdown, tokenizer_ok, page_records, split_done>>

VARIABLES
    val,               \* the argument of normalize_published_date_value
    normalized,        \* how normalize_published_date_value ended
    environ,           \* os.environ, as the client getters read it
    client_cache,      \* _SEARCH_CLIENT and _DOC_INTEL_CLIENT, by getter
    getter_calls,      \* the calls of the getters, each with its position
    document_bytes,    \* the body of the request to the ingestion endpoint
    process_stage,     \* where process_document_to_markdown is
    document_summary   \* its document_summary

dateVars == <<val, normalized>>

cacheVars == <<environ, client_cache, getter_calls>>

processVars == <<document_bytes, process_stage, document_summary>>

\* the state of the date normalizer, the client getters and the ingestion
\* endpoint
tailVars == <<dateVars, cacheVars, processVars>>

\* the state of the functions modelled after the endpoint
laterVars == <<cleanVars, analysisVars, splitVars, tailVars>>

\* the state of the functions modelled further down
restVars == <<endpointVars, laterVars>>

vars == <<idVars, embedVars, indexVars, restVars>>

\* no HTTP response yet
NoResponse == [status |-> 0]

\* index_documents_endpoint has not been called
EndpointIdle ==
    /\ validation_errors = <<>>
    /\ body_type = "array"
    /\ stage = "idle"
    /\ b_idx = 0
    /\ submitted = <<>>
    /\ outcomes = <<>>
    /\ all_results = <<>>
    /\ total_indexed = 0
    /\ total_failed = 0
    /\ response = NoResponse

\* _clean_summary_text has not been called
CleanIdle ==
    /\ raw_summary = <<>>
    /\ cleaned = <<>>
    /\ cleaned_again = <<>>
    /\ clean_calls = 0

\* no result of the analyzer yet
NoAnalysis == [analysis_status |-> "none"]

\* analyze_document_content has not been called
AnalysisIdle ==
    /\ analysis_stage = "idle"
    /\ content_chunks = <<>>
    /\ chunk_summaries = <<>>
    /\ llm_calls = <<>>
    /\ summary_text = <<>>
    /\ analysis_result = NoAnalysis
    /\ analysis = NoAnalysis

\* split_markdown_by_pages has not been called
SplitIdle ==
    /\ full_markdown = <<>>
    /\ tokenizer_ok = TRUE
    /\ page_records = <<>>
    /\ split_done = FALSE

\* None, as an argument of normalize_published_date_value
NoValue == [kind |-> "None"]

\* normalize_published_date_value has not returned
NotNormalized == [ended |-> "pending"]

\* normalize_published_date_value has not been called
DateIdle ==
    /\ val = NoValue
    /\ normalized = NotNormalized

\* the two cached getters
Getters == {"get_search_client", "get_document_intelligence_client"}

\* the value None of a cache
NoClient == 0

\* no getter has been called
CacheIdle ==
    /\ environ = [g \in Getters |-> [endpoint |-> TRUE, key |-> TRUE]]
    /\ client_cache = [g \in Getters |-> NoClient]
    /\ getter_calls = <<>>

\* process_document_to_markdown has not been called
ProcessIdle ==
    /\ document_bytes = <<>>
    /\ process_stage = "idle"
    /\ document_summary = NoAnalysis

\* neither the date normalizer, nor a getter, nor the ingestion endpoint has
\* been called
TailIdle == DateIdle /\ CacheIdle /\ ProcessIdle

\* none of the functions modelled after the endpoint has been called
LaterIdle == CleanIdle /\ AnalysisIdle /\ SplitIdle /\ TailIdle

\* none of the functions modelled further down has been called
RestIdle == EndpointIdle /\ LaterIdle

\* no chunk id pinned yet
NoCall == [url |-> NoUrl, page |-> 0, id |-> <<>>, at |-> 0]

\* the values max_length is drawn from
MaxLengths == (1..MaxLenRange) \cup {DefaultMaxLength}

\* the page numbers drawn
PageNumbers == 0..MaxPage

\* the locators of the calls whose lengths are examined, and no locator
SomeUrls == TextsOver({"a", "/"}, 1, 1) \cup {NoUrl}

\* the identifier generator has not been called
IdIdle ==
    /\ now = 0
    /\ last_call = "none"
    /\ called_at = 0
    /\ source_url = NoUrl
    /\ page_number = 1
    /\ max_length = DefaultMaxLength
    /\ base_document_id = <<>>
    /\ document_id = <<>>
    /\ pinned = NoCall
    /\ other_url = NoUrl
    /\ other_id = <<>>

\* the embedding batcher has not been called
EmbedIdle ==
    /\ pages = <<>>
    /\ max_tokens_per_batch = 7500
    /\ max_items_per_batch = 2000

\* the indexing batcher has not been called
IndexIdle ==
    /\ docs = <<>>
    /\ max_docs = 1000
    /\ max_bytes = 16 * 1024 * 1024
    /\ batches = <<>>

\* a second passes
Tick ==
    /\ now < MaxClock
    /\ now' = now + 1
    /\ UNCHANGED <<last_call, called_at, source_url, page_number, max_length,
                   base_document_id, document_id, pinned, other_url, other_id>>
    /\ UNCHANGED <<embedVars, indexVars, restVars>>

(***************************************************************************)
(* The identifier generator under every max_length: the arguments are      *)
(* drawn at the start, and each function is applied to them.               *)
(***************************************************************************)
InitIdLength ==
    /\ now = 0
    /\ last_call = "none"
    /\ called_at = 0
    /\ source_url \in SomeUrls
    /\ page_number \in PageNumbers
    /\ max_length \in MaxLengths
    /\ base_document_id = <<>>
    /\ document_id = <<>>
    /\ pinned = NoCall
    /\ other_url = NoUrl
    /\ other_id = <<>>
    /\ EmbedIdle
    /\ IndexIdle
    /\ RestIdle

\* generate_base_document_id(source_url, max_length) returns
CallGenerateBaseDocumentId ==
    /\ last_call = "none"
    /\ last_call' = "generate_base_document_id"
    /\ called_at' = now
    /\ base_document_id' = generate_base_document_id(source_url, max_length, now)
    /\ UNCHANGED <<now, source_url, page_number, max_length, document_id,
                   pinned, other_url, other_id>>
    /\ UNCHANGED <<embedVars, indexVars, restVars>>

\* the holder of a base id calls
\* generate_chunk_id_from_base(base_document_id, page_number, max_length)
CallGenerateChunkIdFromBase ==
    \E m \in MaxLengths :
        /\ last_call = "generate_base_document_id"
        /\ last_call' = "generate_chunk_id_from_base"
        /\ called_at' = now
        /\ max_length' = m
        /\ document_id' = generate_chunk_id_from_base(base_document_id, page_number, m)
        /\ UNCHANGED <<now, source_url, page_number, base_document_id,
                       pinned, other_url, other_id>>
        /\ UNCHANGED <<embedVars, indexVars, restVars>>

\* generate_chunk_id(source_url, page_number, max_length) returns;
\* base_document_id is its local base_id
CallGenerateChunkId ==
    /\ last_call = "none"
    /\ last_call' = "generate_chunk_id"
    /\ called_at' = now
    /\ base_document_id' = generate_base_document_id(source_url, max_length, now)
    /\ document_id' = generate_chunk_id(source_url, page_number, max_length, now)
    /\ UNCHANGED <<now, source_url, page_number, max_length,
                   pinned, other_url, other_id>>
    /\ UNCHANGED <<embedVars, indexVars, restVars>>

NextIdLength ==
    \/ Tick
    \/ CallGenerateBaseDocumentId
    \/ CallGenerateChunkIdFromBase
    \/ CallGenerateChunkId

SpecIdLength == InitIdLength /\ [][NextIdLength]_vars

\* the length of a base id before any truncation: "doc_" and the digest, or
\* "doc_" and the 15 characters of the timestamp
FullBaseIdLen(url) ==
    IF Truthy(url) THEN Len(DocPrefix) + HexDigestLen
    ELSE Len(DocPrefix) + Len(Timestamp(0))

\* id is a prefix of base, of whatever length, followed by suffix
ShortenedBaseThenSuffix(id, base, suffix) ==
    \E k \in 0..Len(base) : id = SubSeq(base, 1, k) \o suffix

\* C3, as stated: for every base id, page number and max_length the chunk id
\* is at most max_length long, and when base + "_chunk_<page>" is longer than
\* max_length the id is a shortened base followed by the whole suffix.
C3_ChunkIdWithinMaxLength_AsStated ==
    last_call \in {"generate_chunk_id", "generate_chunk_id_from_base"} =>
        /\ Len(document_id) <= max_length
        /\ Len(base_document_id) + Len(ChunkSuffix(page_number)) > max_length
            => ShortenedBaseThenSuffix(document_id, base_document_id,
                                       ChunkSuffix(page_number))

\* C3, amended: the chunk id is at most max_length long whenever max_length
\* is at least the length of the suffix "_chunk_<page>"; and for every
\* max_length, when base + suffix is longer than max_length the id is a
\* shortened base followed by the whole suffix.
C3_ChunkIdWithinMaxLength ==
    last_call \in {"generate_chunk_id", "generate_chunk_id_from_base"} =>
        /\ max_length >= Len(ChunkSuffix(page_number))
            => Len(document_id) <= max_length
        /\ Len(base_document_id) + Len(ChunkSuffix(page_number)) > max_length
            => ShortenedBaseThenSuffix(document_id, base_document_id,
                                       ChunkSuffix(page_number))

\* C3's case: a two-digit page number, a base that had to be shortened to
\* some of its characters, and the id exactly max_length long
C3_Witness ==
    /\ last_call = "generate_chunk_id_from_base"
    /\ page_number >= 10
    /\ Len(base_document_id) + Len(ChunkSuffix(page_number)) > max_length
    /\ max_length > Len(ChunkSuffix(page_number))
    /\ Len(document_id) = max_length

\* C4, as stated: for every locator, present or absent, and every max_length
\* the base id is non-empty and at most max_length long, and a truncated id
\* still starts with "doc_".
C4_BaseIdWithinMaxLength_AsStated ==
    last_call = "generate_base_document_id" =>
        /\ base_document_id # <<>>
        /\ Len(base_document_id) <= max_length
        /\ FullBaseIdLen(source_url) > max_length
            => PyPrefix(base_document_id, Len(DocPrefix)) = DocPrefix

\* C4, amended: the same for every max_length of at least 4, the length of
\* the prefix "doc_".
C4_BaseIdWithinMaxLength ==
    last_call = "generate_base_document_id" /\ max_length >= Len(DocPrefix) =>
        /\ base_document_id # <<>>
        /\ Len(base_document_id) <= max_length
        /\ FullBaseIdLen(source_url) > max_length
            => PyPrefix(base_document_id, Len(DocPrefix)) = DocPrefix

\* C4's case: the id of a present locator, truncated to max_length
C4_Witness ==
    /\ last_call = "generate_base_document_id"
    /\ Truthy(source_url)
    /\ max_length >= Len(DocPrefix)
    /\ FullBaseIdLen(source_url) > max_length
    /\ Len(base_document_id) = max_length

(***************************************************************************)
(* The chunk id of one page of one document, as split_markdown_by_pages    *)
(* builds it, called again and again while the clock runs and other ids    *)
(* are built in between.                                                   *)
(***************************************************************************)
InitIdDeterminism ==
    /\ now = 0
    /\ last_call = "none"
    /\ called_at = 0
    /\ source_url \in Locators
    /\ page_number \in PageNumbers
    /\ max_length = DefaultMaxLength
    /\ base_document_id = <<>>
    /\ document_id = <<>>
    /\ pinned = NoCall
    /\ other_url = NoUrl
    /\ other_id = <<>>
    /\ EmbedIdle
    /\ IndexIdle
    /\ RestIdle

\* generate_chunk_id_from_base(generate_base_document_id(source_url),
\* page_number) returns; the first result is pinned
CallChunkIdOfLocator ==
    /\ last_call' = "chunk_id_of_locator"
    /\ called_at' = now
    /\ base_document_id' =
           generate_base_document_id(source_url, DefaultMaxLength, now)
    /\ document_id' =
           generate_chunk_id_from_base(base_document_id', page_number,
                                       DefaultMaxLength)
    /\ pinned' = IF pinned = NoCall
                 THEN [url |-> source_url, page |-> page_number,
                       id |-> document_id', at |-> now]
                 ELSE pinned
    /\ UNCHANGED <<now, source_url, page_number, max_length, other_url, other_id>>
    /\ UNCHANGED <<embedVars, indexVars, restVars>>

\* in between, the chunk id of a document that has no locator is built
CallChunkIdWithoutLocator ==
    /\ last_call' = "chunk_id_without_locator"
    /\ called_at' = now
    /\ base_document_id' = generate_base_document_id(NoUrl, DefaultMaxLength, now)
    /\ document_id' =
           generate_chunk_id_from_base(base_document_id', page_number,
                                       DefaultMaxLength)
    /\ UNCHANGED <<now, source_url, page_number, max_length, pinned,
                   other_url, other_id>>
    /\ UNCHANGED <<embedVars, indexVars, restVars>>

NextIdDeterminism ==
    \/ Tick
    \/ CallChunkIdOfLocator
    \/ CallChunkIdWithoutLocator

SpecIdDeterminism == InitIdDeterminism /\ [][NextIdDeterminism]_vars

\* C1: for a present locator L and a page number n, every call of
\* generate_chunk_id_from_base(generate_base_document_id(L), n) returns the
\* id the first call returned, at whatever time it is made and whatever was
\* called in between.
C1_ChunkIdDeterministic ==
    last_call = "chunk_id_of_locator" =>
        /\ pinned.url = source_url
        /\ pinned.page = page_number
        /\ document_id = pinned.id

\* C1's case: the id has been built again after the clock moved on
C1_Witness ==
    /\ last_call = "chunk_id_of_locator"
    /\ Truthy(source_url)
    /\ called_at > pinned.at
    /\ document_id = pinned.id

(***************************************************************************)
(* The base ids of two locators that differ only in letter case, in        *)
(* surrounding whitespace, in the fragment or in trailing slashes of the   *)
(* path.                                                                    *)
(***************************************************************************)
\* the other case of a letter
SwapCase(c) == IF c = "a" THEN "A" ELSE IF c = "A" THEN "a" ELSE c

\* the locator up to its fragment (the first '#')
WithoutFragment(url) == SplitOnce(url, "#")[1]

\* the 0-based index at which the locator's path ends: the first '?' or
\* '#', or the end
PathEnd(url) ==
    LET found == {Find(url, c, 0) : c \in {"?", "#"}} \ {-1}
    IN  IF found = {} THEN Len(url) ELSE Least(found)

\* the locator with one more '/' at the end of its path
WithTrailingSlash(url) ==
    PyPrefix(url, PathEnd(url)) \o <<"/">> \o PySuffixFrom(url, PathEnd(url))

\* both base ids are built (with the default max_length)
CompareBaseIds(how, url, other) ==
    /\ Truthy(url)
    /\ Truthy(other)
    /\ last_call' = how
    /\ called_at' = now
    /\ source_url' = url
    /\ other_url' = other
    /\ base_document_id' = generate_base_document_id(url, DefaultMaxLength, now)
    /\ other_id' = generate_base_document_id(other, DefaultMaxLength, now)
    /\ UNCHANGED <<now, page_number, max_length, document_id, pinned>>
    /\ UNCHANGED <<embedVars, indexVars, restVars>>

\* two locators that differ in the case of one letter
CompareLetterCase ==
    \E url \in Locators, i \in 1..MaxUrlLen :
        /\ last_call = "none"
        /\ i <= Len(url)
        /\ url[i] \in {"a", "A"}
        /\ CompareBaseIds("letter_case", url, [url EXCEPT ![i] = SwapCase(url[i])])

\* two locators that differ in a space before or after
CompareWhitespace ==
    \E url \in Locators, other \in Locators :
        /\ last_call = "none"
        /\ other \in {<<" ">> \o url, url \o <<" ">>}
        /\ CompareBaseIds("surrounding_whitespace", url, other)

\* two locators that differ in the fragment
CompareFragment ==
    \E url \in Locators, fragment \in TextsOver(Alphabet, 0, 1) :
        /\ last_call = "none"
        /\ CompareBaseIds("fragment", url,
                          WithoutFragment(url) \o <<"#">> \o fragment)

\* two locators that differ in one trailing slash of the path
CompareTrailingSlash ==
    \E url \in Locators :
        /\ last_call = "none"
        /\ CompareBaseIds("trailing_slash", url, WithTrailingSlash(url))

NextIdNormalize ==
    \/ CompareLetterCase
    \/ CompareWhitespace
    \/ CompareFragment
    \/ CompareTrailingSlash

\* no locator has been compared yet
InitIdNormalize == IdIdle /\ EmbedIdle /\ IndexIdle /\ RestIdle

SpecIdNormalize == InitIdNormalize /\ [][NextIdNormalize]_vars

\* C2, as stated: two locators that differ only in letter case, surrounding
\* whitespace, the fragment or trailing slashes of the path have the same
\* base id, and the id is "doc_" followed by the digest of the normalized
\* locator.
C2_VariantsShareBaseId ==
    last_call \in {"letter_case", "surrounding_whitespace", "fragment",
                   "trailing_slash"} =>
        /\ base_document_id = other_id
        /\ base_document_id = DocPrefix \o Sha256Hex(normalized_url(source_url))

(***************************************************************************)
(* The embedding batcher (function_app.py).  A page is a record; the       *)
(* batcher adds the field batch_index to each.                             *)
(***************************************************************************)
\* the loop's variables before the first page
LoopStart == [current_batch |-> 0, current_tokens |-> 0, current_items |-> 0]

\* the loop body that compares the item count with > instead of >=
AdmitPage_ItemsOffByOne(st, page_tokens, max_tokens, max_items) ==
    IF \/ st.current_tokens + page_tokens > max_tokens
       \/ st.current_items > max_items
    THEN [current_batch |-> st.current_batch + 1,
          current_tokens |-> page_tokens,
          current_items |-> 1]
    ELSE [current_batch |-> st.current_batch,
          current_tokens |-> st.current_tokens + page_tokens,
          current_items |-> st.current_items + 1]

\* the loop body that compares the page's own tokens with the limit
AdmitPage_OwnTokensOnly(st, page_tokens, max_tokens, max_items) ==
    IF \/ page_tokens > max_tokens
       \/ st.current_items >= max_items
    THEN [current_batch |-> st.current_batch + 1,
          current_tokens |-> page_tokens,
          current_items |-> 1]
    ELSE [current_batch |-> st.current_batch,
          current_tokens |-> st.current_tokens + page_tokens,
          current_items |-> st.current_items + 1]

\* the loop body that starts one batch for each limit that is hit
AdmitPage_ClosesPerLimit(st, page_tokens, max_tokens, max_items) ==
    IF \/ st.current_tokens + page_tokens > max_tokens
       \/ st.current_items >= max_items
    THEN [current_batch |-> st.current_batch
                            + (IF st.current_tokens + page_tokens > max_tokens
                               THEN 1 ELSE 0)
                            + (IF st.current_items >= max_items THEN 1 ELSE 0),
          current_tokens |-> page_tokens,
          current_items |-> 1]
    ELSE [current_batch |-> st.current_batch,
          current_tokens |-> st.current_tokens + page_tokens,
          current_items |-> st.current_items + 1]

\* one pass of the loop body: the loop's variables after the page is
\* admitted; the page's batch_index is the new current_batch
AdmitPage(st, page_tokens, max_tokens, max_items) ==
    IF \/ st.current_tokens + page_tokens > max_tokens
       \/ st.current_items >= max_items
    THEN [current_batch |-> st.current_batch + 1,
          current_tokens |-> page_tokens,
          current_items |-> 1]
    ELSE [current_batch |-> st.current_batch,
          current_tokens |-> st.current_tokens + page_tokens,
          current_items |-> st.current_items + 1]

RECURSIVE AfterPages(_, _, _, _)
\* the loop's variables after the first k pages
AfterPages(ps, k, max_tokens, max_items) ==
    IF k = 0 THEN LoopStart
    ELSE AdmitPage(AfterPages(ps, k - 1, max_tokens, max_items),
                   ps[k].token_count, max_tokens, max_items)

\* group_pages_for_batch_embedding(pages, max_tokens_per_batch,
\* max_items_per_batch): the pages, each with its batch_index
group_pages_for_batch_embedding(ps, max_tokens, max_items) ==
    [k \in 1..Len(ps) |->
        [f \in DOMAIN ps[k] \cup {"batch_index"} |->
            IF f = "batch_index"
            THEN AfterPages(ps, k, max_tokens, max_items).current_batch
            ELSE ps[k][f]]]

\* the page lists drawn: token counts are non-negative
PageLists ==
    UNION {[1..n -> [token_count : 0..MaxTokenCount]] : n \in 0..MaxPages}

InitEmbed ==
    /\ IdIdle
    /\ pages \in PageLists
    /\ max_tokens_per_batch \in 0..MaxTokenLimit
    /\ max_items_per_batch \in 0..MaxItemLimit
    /\ IndexIdle
    /\ RestIdle

\* group_pages_for_batch_embedding(pages, max_tokens_per_batch,
\* max_items_per_batch) returns
CallGroupPages ==
    /\ last_call = "none"
    /\ last_call' = "group_pages_for_batch_embedding"
    /\ pages' = group_pages_for_batch_embedding(pages, max_tokens_per_batch,
                                                max_items_per_batch)
    /\ UNCHANGED <<now, called_at, source_url, page_number, max_length,
                   base_document_id, document_id, pinned, other_url, other_id>>
    /\ UNCHANGED <<max_tokens_per_batch, max_items_per_batch>>
    /\ UNCHANGED <<indexVars, restVars>>

NextEmbed == CallGroupPages

SpecEmbed == InitEmbed /\ [][NextEmbed]_vars

\* the pages have been grouped
Grouped == last_call = "group_pages_for_batch_embedding"

\* the positions of the pages that carry batch index b
PagesOfBatch(b) == {k \in 1..Len(pages) : pages[k].batch_index = b}

RECURSIVE TokensOf(_)
\* the token counts of the pages at the positions S, added up
TokensOf(S) ==
    IF S = {} THEN 0
    ELSE LET k == CHOOSE x \in S : TRUE
         IN  pages[k].token_count + TokensOf(S \ {k})

\* the batch indices in use
BatchIndices == {pages[k].batch_index : k \in 1..Len(pages)}

\* C5, as stated: for a non-empty page list and positive limits, the first
\* page has batch_index 0.
C5_FirstBatchIndexIsZero ==
    /\ Grouped
    /\ pages # <<>>
    /\ max_tokens_per_batch >= 1
    /\ max_items_per_batch >= 1
    => pages[1].batch_index = 0

\* C6: no batch's token total exceeds max_tokens_per_batch unless the batch
\* is one page whose own token_count exceeds it, and a page whose own
\* token_count exceeds it shares its batch_index with no other page.
C6_BatchTokensWithinCeiling ==
    Grouped =>
        /\ \A b \in BatchIndices :
               TokensOf(PagesOfBatch(b)) > max_tokens_per_batch =>
                   /\ Cardinality(PagesOfBatch(b)) = 1
                   /\ \A k \in PagesOfBatch(b) :
                          pages[k].token_count > max_tokens_per_batch
        /\ \A k \in 1..Len(pages) :
               pages[k].token_count > max_tokens_per_batch =>
                   PagesOfBatch(pages[k].batch_index) = {k}

\* C6's case: an over-limit page alone in its batch between two batches of
\* pages within the limit, one of them of two pages
C6_Witness ==
    /\ Grouped
    /\ Len(pages) = 4
    /\ max_tokens_per_batch = 2
    /\ pages[1].token_count = 1 /\ pages[2].token_count = 1
    /\ pages[3].token_count = 3 /\ pages[4].token_count = 0
    /\ pages[1].batch_index = pages[2].batch_index
    /\ PagesOfBatch(pages[3].batch_index) = {3}

\* C7: each page's batch_index is that of the page before it or one more,
\* so a batch's pages are contiguous and a closed batch gets no more pages.
C7_BatchIndexStepsByOne ==
    Grouped =>
        /\ \A k \in 2..Len(pages) :
               pages[k].batch_index - pages[k - 1].batch_index \in {0, 1}
        /\ \A b \in BatchIndices : \A i, j \in PagesOfBatch(b) :
               \A k \in i..j : k \in PagesOfBatch(b)

\* C7's case: a batch of two pages followed by a new batch
C7_Witness ==
    /\ Grouped
    /\ Len(pages) >= 3
    /\ pages[2].batch_index = pages[1].batch_index
    /\ pages[3].batch_index = pages[2].batch_index + 1

\* the batch being filled when page k arrives: the one of the page before
\* it, or batch 0 before the first page
BatchBefore(k) == IF k = 1 THEN 0 ELSE pages[k - 1].batch_index

\* the positions before k of the pages in the batch being filled
FilledBefore(k) == {j \in PagesOfBatch(BatchBefore(k)) : j < k}

\* C8: with max_items_per_batch >= 1 no batch_index is carried by more
\* than max_items_per_batch pages, and a page opens a new batch exactly
\* when admitting it would push the running token sum over
\* max_tokens_per_batch or the running item count has reached
\* max_items_per_batch.
C8_BatchItemsWithinCeiling ==
    Grouped /\ max_items_per_batch >= 1 =>
        /\ \A b \in BatchIndices :
               Cardinality(PagesOfBatch(b)) <= max_items_per_batch
        /\ \A k \in 1..Len(pages) :
               pages[k].batch_index # BatchBefore(k)
               <=> \/ TokensOf(FilledBefore(k)) + pages[k].token_count
                          > max_tokens_per_batch
                   \/ Cardinality(FilledBefore(k)) >= max_items_per_batch

\* C8's case: a batch closed by the item count alone
C8_Witness ==
    /\ Grouped
    /\ max_items_per_batch = 2
    /\ Len(pages) >= 3
    /\ TokensOf({1, 2, 3}) <= max_tokens_per_batch
    /\ pages[1].batch_index = 0
    /\ pages[2].batch_index = 0
    /\ pages[3].batch_index = 1

(***************************************************************************)
(* The indexing batcher (search_utils.py).  A document is a record with    *)
(* one field, "id": a text, or a value json.dumps cannot serialize.        *)
(***************************************************************************)
\* a value json.dumps raises TypeError on
NotSerializable == <<"b'...'">>

\* json.dumps of one character of a string: quote and backslash are escaped
JsonEscape(c) == IF c \in {"\"", "\\"} THEN <<"\\", c>> ELSE <<c>>

RECURSIVE JsonString(_)
\* json.dumps of the characters of a string, between the quotes
JsonString(s) ==
    IF s = <<>> THEN <<>> ELSE JsonEscape(Head(s)) \o JsonString(Tail(s))

\* json.dumps(doc, ensure_ascii=False) of a serializable document
json_dumps(doc) ==
    <<"{", "\"", "i", "d", "\"", ":", " ", "\"">>
        \o JsonString(doc.id) \o <<"\"", "}">>

\* estimate_json_size_bytes(obj): the length of the UTF-8 encoding of the
\* JSON text (one byte per character here), 0 if serializing raises
estimate_json_size_bytes(doc) ==
    IF doc.id = NotSerializable THEN 0 ELSE Len(json_dumps(doc))

\* the loop's variables before the first document
ChunkStart == [batches |-> <<>>, current |-> <<>>, current_bytes |-> 0]

\* the loop body that closes the current batch once it holds more than
\* max_docs documents
AppendDoc_CountOffByOne(st, doc, maxdocs, maxbytes) ==
    IF \/ Len(st.current) > maxdocs
       \/ /\ st.current_bytes + estimate_json_size_bytes(doc) > maxbytes
          /\ st.current # <<>>
    THEN [batches |-> Append(st.batches, st.current),
          current |-> <<doc>>,
          current_bytes |-> estimate_json_size_bytes(doc)]
    ELSE [batches |-> st.batches,
          current |-> Append(st.current, doc),
          current_bytes |-> st.current_bytes + estimate_json_size_bytes(doc)]

\* one pass of the loop body
AppendDoc(st, doc, maxdocs, maxbytes) ==
    IF \/ Len(st.current) + 1 > maxdocs
       \/ /\ st.current_bytes + estimate_json_size_bytes(doc) > maxbytes
          /\ st.current # <<>>
    THEN [batches |-> Append(st.batches, st.current),
          current |-> <<doc>>,
          current_bytes |-> estimate_json_size_bytes(doc)]
    ELSE [batches |-> st.batches,
          current |-> Append(st.current, doc),
          current_bytes |-> st.current_bytes + estimate_json_size_bytes(doc)]

RECURSIVE AfterDocs(_, _, _, _)
\* the loop's variables after the first k documents
AfterDocs(ds, k, maxdocs, maxbytes) ==
    IF k = 0 THEN ChunkStart
    ELSE AppendDoc(AfterDocs(ds, k - 1, maxdocs, maxbytes), ds[k],
                   maxdocs, maxbytes)

\* the batcher that returns the closed batches only
chunk_documents_for_indexing_closed_only(ds, maxdocs, maxbytes) ==
    AfterDocs(ds, Len(ds), maxdocs, maxbytes).batches

\* chunk_documents_for_indexing(docs, max_docs, max_bytes): the closed
\* batches, then the batch being filled if it is not empty
chunk_documents_for_indexing(ds, maxdocs, maxbytes) ==
    IF AfterDocs(ds, Len(ds), maxdocs, maxbytes).current # <<>>
    THEN Append(AfterDocs(ds, Len(ds), maxdocs, maxbytes).batches,
                AfterDocs(ds, Len(ds), maxdocs, maxbytes).current)
    ELSE AfterDocs(ds, Len(ds), maxdocs, maxbytes).batches

\* the documents drawn
Documents ==
    [id : TextsOver({"a", "\""}, 0, MaxIdLen) \cup {NotSerializable}]

DocLists == UNION {[1..n -> Documents] : n \in 0..MaxDocs}

InitIndex ==
    /\ IdIdle
    /\ EmbedIdle
    /\ docs \in DocLists
    /\ max_docs \in 0..MaxDocsLimit
    /\ max_bytes \in 0..MaxBytesLimit
    /\ batches = <<>>
    /\ RestIdle

\* chunk_documents_for_indexing(docs, max_docs, max_bytes) returns
CallChunkDocuments ==
    /\ last_call = "none"
    /\ last_call' = "chunk_documents_for_indexing"
    /\ batches' = chunk_documents_for_indexing(docs, max_docs, max_bytes)
    /\ UNCHANGED <<now, called_at, source_url, page_number, max_length,
                   base_document_id, document_id, pinned, other_url, other_id>>
    /\ UNCHANGED <<embedVars, restVars>>
    /\ UNCHANGED <<docs, max_docs, max_bytes>>

NextIndex == CallChunkDocuments

SpecIndex == InitIndex /\ [][NextIndex]_vars

\* the documents have been batched
Chunked == last_call = "chunk_documents_for_indexing"

RECURSIVE Concatenation(_)
\* the batches joined in order
Concatenation(bs) ==
    IF bs = <<>> THEN <<>> ELSE Head(bs) \o Concatenation(Tail(bs))

RECURSIVE BytesOf(_)
\* the estimated sizes of a batch's documents, added up
BytesOf(batch) ==
    IF batch = <<>> THEN 0
    ELSE estimate_json_size_bytes(Head(batch)) + BytesOf(Tail(batch))

\* C9: the batches, joined in order, are the input list, and an empty
\* input gives no batches.
C9_BatchesConcatenateToInput ==
    Chunked =>
        /\ Concatenation(batches) = docs
        /\ docs = <<>> => batches = <<>>

\* C9's case: three documents, not all alike, split over two batches
C9_Witness ==
    /\ Chunked
    /\ Len(docs) = 3
    /\ docs[1] # docs[2]
    /\ Len(batches) = 2
    /\ Len(batches[1]) = 2

\* a batch is within max_bytes, or is one document larger than max_bytes;
\* a document larger than max_bytes is alone in its batch
BatchBytesWithinCeiling(batch) ==
    /\ BytesOf(batch) > max_bytes =>
           /\ Len(batch) = 1
           /\ estimate_json_size_bytes(batch[1]) > max_bytes
    /\ \A k \in 1..Len(batch) :
           estimate_json_size_bytes(batch[k]) > max_bytes => Len(batch) = 1

NoId == <<"None">>
GetId(d) == IF "id" \in DOMAIN d THEN d.id ELSE NoId

\* the errors validate_documents_shape appends for the document at index i
\* (0-based): the message about "id" names the index, those about "vector"
\* name the document's id
ShapeErrors(d, i) ==
    (IF "id" \notin DOMAIN d \/ d.id = <<>>
     THEN <<[rule |-> "id", index |-> i]>>
     ELSE <<>>)
    \o
    (IF "vector" \in DOMAIN d /\ d.vector.type # "NoneType"
     THEN IF d.vector.type # "list"
          THEN <<[rule |-> "vector_type", id |-> GetId(d)]>>
          ELSE IF Len(d.vector.items) # VectorLength
               THEN <<[rule |-> "vector_length", id |-> GetId(d),
                       length |-> Len(d.vector.items)]>>
               ELSE <<>>
     ELSE <<>>)

RECURSIVE ErrorsUpTo(_, _)
\* the errors after the first k documents
ErrorsUpTo(ds, k) ==
    IF k = 0 THEN <<>>
    ELSE ErrorsUpTo(ds, k - 1) \o ShapeErrors(ds[k], k - 1)

\* validate_documents_shape(docs)
validate_documents_shape(ds) == ErrorsUpTo(ds, Len(ds))

\* a list of n items, all e
Repeated(e, n) == [k \in 1..n |-> e]

\* the items drawn: a number, and a string
NumericItems == {"0.5"}
VectorItems == NumericItems \cup {"x"}

\* the vector values drawn: null, a string, and lists of the expected
\* length and one short of it
VectorValues ==
    {[type |-> "NoneType", items |-> <<>>], [type |-> "str", items |-> <<>>]}
    \cup {[type |-> "list", items |-> Repeated(e, n)] :
              e \in VectorItems, n \in {VectorLength - 1, VectorLength}}

\* the "id" values drawn: the empty string and a non-empty one
IdValues == {<<>>, <<"a">>}

\* the documents drawn: with and without "id", with and without "vector"
ShapedDocuments ==
    {<<>>} \cup [id : IdValues] \cup [vector : VectorValues]
    \cup [id : IdValues, vector : VectorValues]

ShapedLists == UNION {[1..n -> ShapedDocuments] : n \in 0..MaxValidated}

InitValidate ==
    /\ IdIdle
    /\ EmbedIdle
    /\ docs \in ShapedLists
    /\ max_docs = 1000
    /\ max_bytes = 16 * 1024 * 1024
    /\ batches = <<>>
    /\ RestIdle

\* validate_documents_shape(docs) returns
CallValidateDocumentsShape ==
    /\ last_call = "none"
    /\ last_call' = "validate_documents_shape"
    /\ validation_errors' = validate_documents_shape(docs)
    /\ UNCHANGED <<now, called_at, source_url, page_number, max_length,
                   base_document_id, document_id, pinned, other_url, other_id>>
    /\ UNCHANGED <<embedVars, indexVars, laterVars>>
    /\ UNCHANGED <<body_type, stage, b_idx, submitted, outcomes, all_results,
                   total_indexed, total_failed, response>>

NextValidate == CallValidateDocumentsShape

SpecValidate == InitValidate /\ [][NextValidate]_vars

\* the documents have been validated
Validated == last_call = "validate_documents_shape"

\* the document lacks a non-empty id
LacksId(d) == "id" \notin DOMAIN d \/ d.id = <<>>

\* the vector is a list of exactly 1536 numeric values
IsEmbedding(v) ==
    /\ v.type = "list"
    /\ Len(v.items) = VectorLength
    /\ \A k \in 1..Len(v.items) : v.items[k] \in NumericItems

\* the document has a vector (null counts as none) that is not a list of
\* exactly 1536 numeric values
HasBadVector(d) ==
    /\ "vector" \in DOMAIN d
    /\ d.vector.type # "NoneType"
    /\ ~IsEmbedding(d.vector)

\* C11, as stated: every document without a non-empty id and every
\* document whose vector is not a list of exactly 1536 numeric values has
\* an error of its own, and no errors are returned only when no document
\* breaks either rule.
C11_EveryViolationReported ==
    Validated =>
        /\ \A i \in 1..Len(docs) :
               LacksId(docs[i]) =>
                   \E e \in 1..Len(validation_errors) :
                       /\ validation_errors[e].rule = "id"
                       /\ validation_errors[e].index = i - 1
        /\ \A i \in 1..Len(docs) :
               HasBadVector(docs[i]) =>
                   \E e \in 1..Len(validation_errors) :
                       /\ validation_errors[e].rule
                              \in {"vector_type", "vector_length"}
                       /\ validation_errors[e].id = GetId(docs[i])
        /\ validation_errors = <<>> =>
               \A i \in 1..Len(docs) :
                   ~LacksId(docs[i]) /\ ~HasBadVector(docs[i])

(***************************************************************************)
(* index_documents_endpoint (function_app.py).  The request's documents    *)
(* carry no published_date.  The batcher's default limits are in max_docs  *)
(* and max_bytes; max_docs is drawn small, so that a few documents make    *)
(* several batches.  The index client answers one result per document, in  *)
(* order, or leaves the last one out, or raises.                           *)
(***************************************************************************)
\* the documents posted: with an id of one letter, an empty id, or no id
PostedDocuments == [id : TextsOver({"a", "b"}, 0, 1)] \cup {<<>>}

PostedLists == UNION {[1..n -> PostedDocuments] : n \in 0..MaxBody}

\* str(e) of what the index client raises
ClientErrors == {"ServiceRequestError"}

\* an IndexingResult of the client, as the item the endpoint reports
IndexingResult(d, ok) ==
    [key |-> d.id,
     succeeded |-> ok,
     statusCode |-> IF ok THEN "200" ELSE "409",
     errorMessage |-> IF ok THEN "None" ELSE "Conflict"]

\* what client.merge_or_upload_documents(documents=batch) may return: a
\* result for each document, or for each but the last
ClientResults(batch) ==
    UNION {{[k \in 1..n |-> IndexingResult(batch[k], ok[k])] :
                ok \in [1..n -> BOOLEAN]} :
               n \in (Len(batch) - 1)..Len(batch)}

\* the items appended for a batch whose submission raised e
FailedItems(batch, e) ==
    [k \in 1..Len(batch) |->
        [key |-> GetId(batch[k]),
         succeeded |-> FALSE,
         statusCode |-> "None",
         errorMessage |-> e]]

\* how many of the items did not succeed
CountFailed(items) == Cardinality({k \in 1..Len(items) : ~items[k].succeeded})

InitEndpoint ==
    /\ IdIdle
    /\ EmbedIdle
    /\ body_type \in {"invalid", "object", "array"}
    /\ docs \in PostedLists
    /\ body_type # "array" => docs = <<>>
    /\ max_docs \in 1..MaxBatchDocs
    /\ max_bytes = 16 * 1024 * 1024
    /\ batches = <<>>
    /\ validation_errors = <<>>
    /\ stage = "idle"
    /\ b_idx = 0
    /\ submitted = <<>>
    /\ outcomes = <<>>
    /\ all_results = <<>>
    /\ total_indexed = 0
    /\ total_failed = 0
    /\ response = NoResponse
    /\ LaterIdle

\* the body is not JSON, not an array, or an empty array: 400
RejectBody ==
    /\ stage = "idle"
    /\ body_type # "array" \/ docs = <<>>
    /\ stage' = "responded"
    /\ response' = [status |-> 400,
                    error |-> IF body_type = "invalid" THEN "Invalid JSON"
                              ELSE IF body_type = "object" THEN "Not an array"
                              ELSE "No documents provided"]
    /\ UNCHANGED <<idVars, embedVars, indexVars, laterVars>>
    /\ UNCHANGED <<validation_errors, body_type, b_idx, submitted, outcomes,
                   all_results, total_indexed, total_failed>>

\* the rejection that counts the errors instead of the documents
RejectDocuments_CountsErrors ==
    /\ stage = "idle"
    /\ body_type = "array" /\ docs # <<>>
    /\ validate_documents_shape(docs) # <<>>
    /\ validation_errors' = validate_documents_shape(docs)
    /\ stage' = "responded"
    /\ response' = [status |-> 400,
                    indexed |-> 0,
                    failed |-> Len(validate_documents_shape(docs)),
                    results |-> <<>>,
                    errors |-> validate_documents_shape(docs)]
    /\ UNCHANGED <<idVars, embedVars, indexVars, laterVars>>
    /\ UNCHANGED <<body_type, b_idx, submitted, outcomes,
                   all_results, total_indexed, total_failed>>

\* validate_documents_shape finds errors: 400 with every document failed
RejectDocuments ==
    /\ stage = "idle"
    /\ body_type = "array" /\ docs # <<>>
    /\ validate_documents_shape(docs) # <<>>
    /\ validation_errors' = validate_documents_shape(docs)
    /\ stage' = "responded"
    /\ response' = [status |-> 400,
                    indexed |-> 0,
                    failed |-> Len(docs),
                    results |-> <<>>,
                    errors |-> validate_documents_shape(docs)]
    /\ UNCHANGED <<idVars, embedVars, indexVars, laterVars>>
    /\ UNCHANGED <<body_type, b_idx, submitted, outcomes,
                   all_results, total_indexed, total_failed>>

\* get_search_client() raises ValueError: 500
ClientUnavailable ==
    /\ stage = "idle"
    /\ body_type = "array" /\ docs # <<>>
    /\ validate_documents_shape(docs) = <<>>
    /\ stage' = "responded"
    /\ response' = [status |-> 500, error |-> "Configuration error"]
    /\ UNCHANGED <<idVars, embedVars, indexVars, laterVars>>
    /\ UNCHANGED <<validation_errors, body_type, b_idx, submitted, outcomes,
                   all_results, total_indexed, total_failed>>

\* the documents are valid and the client is there: the batches are made
StartIndexing ==
    /\ stage = "idle"
    /\ body_type = "array" /\ docs # <<>>
    /\ validate_documents_shape(docs) = <<>>
    /\ stage' = "submitting"
    /\ batches' = chunk_documents_for_indexing(docs, max_docs, max_bytes)
    /\ UNCHANGED <<idVars, embedVars, docs, max_docs, max_bytes, laterVars>>
    /\ UNCHANGED <<validation_errors, body_type, b_idx, submitted, outcomes,
                   all_results, total_indexed, total_failed, response>>

\* the loop body when the client returns results for the batch
BatchReturns ==
    /\ stage = "submitting"
    /\ b_idx < Len(batches)
    /\ \E results \in ClientResults(batches[b_idx + 1]) :
        /\ submitted' = Append(submitted, batches[b_idx + 1])
        /\ outcomes' = Append(outcomes, [raised |-> FALSE, error |-> "None",
                                         results |-> results])
        /\ all_results' = all_results \o results
        /\ total_indexed' = total_indexed + Len(results) - CountFailed(results)
        /\ total_failed' = total_failed + CountFailed(results)
    /\ b_idx' = b_idx + 1
    /\ UNCHANGED <<idVars, embedVars, indexVars, laterVars>>
    /\ UNCHANGED <<validation_errors, body_type, stage, response>>

\* the loop body that gives up the request when the client raises
BatchRaises_Aborts ==
    /\ stage = "submitting"
    /\ b_idx < Len(batches)
    /\ \E e \in ClientErrors :
        /\ submitted' = Append(submitted, batches[b_idx + 1])
        /\ outcomes' = Append(outcomes, [raised |-> TRUE, error |-> e,
                                         results |-> <<>>])
        /\ response' = [status |-> 500, error |-> e]
    /\ stage' = "responded"
    /\ UNCHANGED <<idVars, embedVars, indexVars, laterVars>>
    /\ UNCHANGED <<validation_errors, body_type, b_idx, all_results,
                   total_indexed, total_failed>>

\* the loop body that counts a batch that raised as one failure
BatchRaises_CountsOne ==
    /\ stage = "submitting"
    /\ b_idx < Len(batches)
    /\ \E e \in ClientErrors :
        /\ submitted' = Append(submitted, batches[b_idx + 1])
        /\ outcomes' = Append(outcomes, [raised |-> TRUE, error |-> e,
                                         results |-> <<>>])
        /\ all_results' = all_results \o FailedItems(batches[b_idx + 1], e)
    /\ total_failed' = total_failed + 1
    /\ b_idx' = b_idx + 1
    /\ UNCHANGED <<idVars, embedVars, indexVars, laterVars>>
    /\ UNCHANGED <<validation_errors, body_type, stage, total_indexed,
                   response>>

\* the loop body when the client raises: the whole batch is marked failed
BatchRaises ==
    /\ stage = "submitting"
    /\ b_idx < Len(batches)
    /\ \E e \in ClientErrors :
        /\ submitted' = Append(submitted, batches[b_idx + 1])
        /\ outcomes' = Append(outcomes, [raised |-> TRUE, error |-> e,
                                         results |-> <<>>])
        /\ all_results' = all_results \o FailedItems(batches[b_idx + 1], e)
    /\ total_failed' = total_failed + Len(batches[b_idx + 1])
    /\ b_idx' = b_idx + 1
    /\ UNCHANGED <<idVars, embedVars, indexVars, laterVars>>
    /\ UNCHANGED <<validation_errors, body_type, stage, total_indexed,
                   response>>

\* the response that is 200 as soon as one document was indexed
Respond_OkIfAnyIndexed ==
    /\ stage = "submitting"
    /\ b_idx = Len(batches)
    /\ stage' = "responded"
    /\ response' = [status |-> IF total_indexed > 0 \/ total_failed = 0
                               THEN 200 ELSE 500,
                    indexed |-> total_indexed,
                    failed |-> total_failed,
                    batches |-> [count |-> Len(batches),
                                 totalDocs |-> Len(docs)],
                    results |-> all_results]
    /\ UNCHANGED <<idVars, embedVars, indexVars, laterVars>>
    /\ UNCHANGED <<validation_errors, body_type, b_idx, submitted, outcomes,
                   all_results, total_indexed, total_failed>>

\* after the loop: the summary, 200 only if no document failed
Respond ==
    /\ stage = "submitting"
    /\ b_idx = Len(batches)
    /\ stage' = "responded"
    /\ response' = [status |-> IF total_failed = 0 THEN 200 ELSE 500,
                    indexed |-> total_indexed,
                    failed |-> total_failed,
                    batches |-> [count |-> Len(batches),
                                 totalDocs |-> Len(docs)],
                    results |-> all_results]
    /\ UNCHANGED <<idVars, embedVars, indexVars, laterVars>>
    /\ UNCHANGED <<validation_errors, body_type, b_idx, submitted, outcomes,
                   all_results, total_indexed, total_failed>>

NextEndpoint ==
    \/ RejectBody
    \/ RejectDocuments
    \/ ClientUnavailable
    \/ StartIndexing
    \/ BatchReturns
    \/ BatchRaises
    \/ Respond

SpecEndpoint == InitEndpoint /\ [][NextEndpoint]_vars

\* the items the endpoint owes for the k-th call of the client: the
\* client's results as they came, or every document of the batch failed
\* with the error raised
ItemsOwed(k) ==
    IF outcomes[k].raised
    THEN [j \in 1..Len(submitted[k]) |->
             [key |-> GetId(submitted[k][j]),
              succeeded |-> FALSE,
              statusCode |-> "None",
              errorMessage |-> outcomes[k].error]]
    ELSE outcomes[k].results

RECURSIVE ItemsOwedUpTo(_)
\* the items owed for the first k calls, in order
ItemsOwedUpTo(k) ==
    IF k = 0 THEN <<>> ELSE ItemsOwedUpTo(k - 1) \o ItemsOwed(k)

\* C12: when the client raises for a batch, every document of that batch
\* is reported failed with the batch error, every other batch is submitted
\* exactly once and its own outcomes are reported as they came, and the
\* request runs to the summary response.
C12_BatchFailureIsIsolated ==
    /\ Len(outcomes) = Len(submitted)
    /\ submitted = SubSeq(batches, 1, b_idx)
    /\ all_results = ItemsOwedUpTo(Len(outcomes))
    /\ stage = "responded" =>
           /\ submitted = batches
           /\ batches # <<>> =>
                  /\ "results" \in DOMAIN response
                  /\ response.results = ItemsOwedUpTo(Len(batches))

\* C12's case: three batches, the client raised for the second only, and
\* the first and the third are reported with the client's own outcomes, a
\* rejected document among them
C12_Witness ==
    /\ stage = "responded"
    /\ Len(batches) = 3
    /\ ~outcomes[1].raised /\ outcomes[2].raised /\ ~outcomes[3].raised
    /\ Len(outcomes[1].results) = 1 /\ Len(outcomes[3].results) = 1
    /\ ~outcomes[1].results[1].succeeded
    /\ outcomes[3].results[1].succeeded
    /\ Len(response.results) = 3
    /\ response.results[2].errorMessage \in ClientErrors

\* the client returned one result for each document it was given
OneOutcomePerDocument ==
    \A k \in 1..Len(outcomes) :
        ~outcomes[k].raised => Len(outcomes[k].results) = Len(submitted[k])

\* C13: a response that carries a failed counter is 200 exactly when the
\* counter is 0; the counter of the summary response is the number of
\* reported documents that did not succeed, whether rejected by the index
\* or part of a batch whose submission raised; the results are returned
\* with either status.
C13_OkIffNoneFailed ==
    stage = "responded" /\ "failed" \in DOMAIN response =>
        /\ response.status = 200 <=> response.failed = 0
        /\ "results" \in DOMAIN response
        /\ batches # <<>> =>
               /\ response.failed = CountFailed(response.results)
               /\ OneOutcomePerDocument =>
                      /\ response.indexed + response.failed = Len(docs)
                      /\ Len(response.results) = Len(docs)

\* C13's case: one document indexed and one failed in a batch that was
\* returned, one more failed in a batch that raised, and the response is
\* not 200 and carries the three results
C13_Witness ==
    /\ stage = "responded"
    /\ Len(batches) = 2
    /\ ~outcomes[1].raised /\ outcomes[2].raised
    /\ response.indexed = 1
    /\ response.failed = 2
    /\ response.status = 500
    /\ Len(response.results) = 3

\* C27: when validate_documents_shape reports an error, no batch is built,
\* nothing is submitted to the index client, and the response has
\* indexed = 0, failed = the number of documents of the request, no results
\* and every validation error.
C27_InvalidRequestSubmitsNothing ==
    body_type = "array" /\ validate_documents_shape(docs) # <<>> =>
        /\ batches = <<>>
        /\ submitted = <<>>
        /\ outcomes = <<>>
        /\ stage \in {"idle", "responded"}
        /\ stage = "responded" =>
               /\ response.indexed = 0
               /\ response.failed = Len(docs)
               /\ response.results = <<>>
               /\ response.errors = validate_documents_shape(docs)
               /\ validation_errors = validate_documents_shape(docs)

\* C27's case: three documents of which one has no id, rejected with one
\* error and three failed
C27_Witness ==
    /\ stage = "responded"
    /\ Len(docs) = 3
    /\ "errors" \in DOMAIN response
    /\ Len(response.errors) = 1
    /\ response.failed = 3
    /\ submitted = <<>>

\* C28: indexed + failed is the number of results, during the loop and in
\* the summary response, whatever the batches did; and when the client
\* returned one result for each document it was given, the sum is also
\* batches.totalDocs, the number of documents posted, and the k-th result
\* is that of the k-th document posted.
C28_CountersMatchResults ==
    /\ total_indexed + total_failed = Len(all_results)
    /\ stage = "responded" /\ "batches" \in DOMAIN response =>
           /\ response.indexed + response.failed = Len(response.results)
           /\ response.batches.totalDocs = Len(docs)
           /\ OneOutcomePerDocument =>
                  /\ response.indexed + response.failed
                         = response.batches.totalDocs
                  /\ \A k \in 1..Len(docs) :
                         response.results[k].key = GetId(docs[k])

\* C28's case: documents a and b in one batch that raised, then document a
\* alone in a batch that was returned
C28_Witness ==
    /\ stage = "responded"
    /\ Len(batches) = 2
    /\ Len(batches[1]) = 2
    /\ outcomes[1].raised /\ ~outcomes[2].raised
    /\ OneOutcomePerDocument
    /\ docs[1].id # docs[2].id
    /\ response.indexed = 1
    /\ response.failed = 2
    /\ Len(response.results) = 3


(***************************************************************************)
(* _clean_summary_text (document_analysis.py).  The curly double quotes    *)
(* are written as the characters "U+201C" and "U+201D".                    *)
(***************************************************************************)
DoubleQuote == "\""
Apostrophe == "'"
LeftCurly == "U+201C"
RightCurly == "U+201D"
Newline == "\n"

\* the whitespace of a summary
TextWhitespace == {" ", Newline}

\* str.strip() of a summary
StripText(s) == LStrip(RStrip(s, TextWhitespace), TextWhitespace)

StartsWith(s, c) == Len(s) >= 1 /\ s[1] = c
EndsWith(s, c) == Len(s) >= 1 /\ s[Len(s)] = c

\* the text starts and ends with matching quotes
IsWrapped(s) ==
    \/ StartsWith(s, DoubleQuote) /\ EndsWith(s, DoubleQuote)
    \/ StartsWith(s, LeftCurly) /\ EndsWith(s, RightCurly)
    \/ StartsWith(s, Apostrophe) /\ EndsWith(s, Apostrophe)

\* s[1:-1].strip() if the text is wrapped in quotes
Unwrap(s) ==
    IF IsWrapped(s) THEN StripText(SubSeq(s, 2, Len(s) - 1)) ELSE s

RECURSIVE SplitLines(_)
\* str.splitlines(), the line break being "\n"
SplitLines(s) ==
    IF s = <<>> THEN <<>>
    ELSE IF Find(s, Newline, 0) = -1 THEN <<s>>
    ELSE <<PyPrefix(s, Find(s, Newline, 0))>>
             \o SplitLines(PySuffixFrom(s, Find(s, Newline, 0) + 1))

\* str.replace('"', "'")
ReplaceDoubleQuotes(s) ==
    [i \in 1..Len(s) |-> IF s[i] = DoubleQuote THEN Apostrophe ELSE s[i]]

\* the cleaning of one line
CleanLine(line) ==
    ReplaceDoubleQuotes(
        LStrip(RStrip(Unwrap(StripText(line)),
                      {DoubleQuote, LeftCurly, RightCurly}),
               {DoubleQuote, LeftCurly, RightCurly}))

RECURSIVE JoinLines(_)
\* "\n".join(lines)
JoinLines(lines) ==
    IF lines = <<>> THEN <<>>
    ELSE IF Len(lines) = 1 THEN lines[1]
    ELSE lines[1] \o <<Newline>> \o JoinLines(Tail(lines))

RECURSIVE CollapseFrom(_, _)
\* the text from position k on, without the line breaks that follow two
\* line breaks
CollapseFrom(s, k) ==
    IF k > Len(s) THEN <<>>
    ELSE IF k >= 3 /\ s[k] = Newline /\ s[k - 1] = Newline
            /\ s[k - 2] = Newline
    THEN CollapseFrom(s, k + 1)
    ELSE <<s[k]>> \o CollapseFrom(s, k + 1)

\* re.sub(r"\n{3,}", "\n\n", s)
CollapseNewlines(s) == CollapseFrom(s, 1)

\* _clean_summary_text(text), for a str
clean_summary_text(text) ==
    StripText(CollapseNewlines(JoinLines(
        [k \in 1..Len(SplitLines(Unwrap(StripText(text)))) |->
            CleanLine(SplitLines(Unwrap(StripText(text)))[k])])))

\* the characters of the summaries drawn
SummaryAlphabet ==
    {"a", " ", Newline, DoubleQuote, Apostrophe, LeftCurly, RightCurly}

InitClean ==
    /\ IdIdle
    /\ EmbedIdle
    /\ IndexIdle
    /\ EndpointIdle
    /\ raw_summary \in TextsOver(SummaryAlphabet, 0, MaxSummaryLen)
    /\ cleaned = <<>>
    /\ cleaned_again = <<>>
    /\ clean_calls = 0
    /\ AnalysisIdle
    /\ SplitIdle
    /\ TailIdle

\* _clean_summary_text(raw_summary) returns
CallCleanSummaryText ==
    /\ clean_calls = 0
    /\ clean_calls' = 1
    /\ cleaned' = clean_summary_text(raw_summary)
    /\ UNCHANGED <<raw_summary, cleaned_again>>
    /\ UNCHANGED <<idVars, embedVars, indexVars, endpointVars, analysisVars,
                   splitVars, tailVars>>

\* _clean_summary_text returns for the text it returned before
CallCleanSummaryTextAgain ==
    /\ clean_calls = 1
    /\ clean_calls' = 2
    /\ cleaned_again' = clean_summary_text(cleaned)
    /\ UNCHANGED <<raw_summary, cleaned>>
    /\ UNCHANGED <<idVars, embedVars, indexVars, endpointVars, analysisVars,
                   splitVars, tailVars>>

NextClean == CallCleanSummaryText \/ CallCleanSummaryTextAgain

SpecClean == InitClean /\ [][NextClean]_vars

\* C18, as stated: cleaning a cleaned text changes nothing.
C18_CleanIsIdempotent ==
    clean_calls = 2 => cleaned_again = cleaned

(***************************************************************************)
(* analyze_document_content (document_analysis.py), with                   *)
(* generate_single_shot_analysis and generate_map_reduce_summary.  The     *)
(* LLM client, the text splitter and the three chains are outside the      *)
(* program: each call may return or raise.                                 *)
(***************************************************************************)
\* sum(page["token_count"] for page in pages)
RECURSIVE SumTokenCounts(_)
SumTokenCounts(ps) ==
    IF ps = <<>> THEN 0 ELSE Head(ps).token_count + SumTokenCounts(Tail(ps))

\* the routing test with the boundary on the single-shot side
UsesSingleShot_Inclusive(total_tokens) == total_tokens <= SingleShotLimit

\* the routing test: total_tokens < 100000
UsesSingleShot(total_tokens) == total_tokens < SingleShotLimit

\* generate_map_reduce_summary splits the content only above the limit
SplitsContent(total_tokens) == total_tokens > SingleShotLimit

\* the summary of a result without one (None)
NoSummary == <<"None">>

\* "Analysis failed"
AnalysisFailedText ==
    <<"A", "n", "a", "l", "y", "s", "i", "s", " ", "f", "a", "i", "l", "e",
      "d">>

\* "Section "
SectionWord ==
    <<"S", "e", "c", "t", "i", "o", "n", " ">>

\* "[Summary generation failed]"
SummaryFailedText ==
    <<"[", "S", "u", "m", "m", "a", "r", "y", " ", "g", "e", "n", "e", "r",
      "a", "t", "i", "o", "n", " ", "f", "a", "i", "l", "e", "d", "]">>

\* f"Section {i}: {summary.strip()}"
SectionText(i, summary) ==
    SectionWord \o NatStr(i) \o <<":", " ">> \o StripText(summary)

\* f"Section {i}: [Summary generation failed]"
SectionPlaceholder(i) ==
    SectionWord \o NatStr(i) \o <<":", " ">> \o SummaryFailedText

RECURSIVE JoinSections(_)
\* "\n\n".join(chunk_summaries)
JoinSections(sections) ==
    IF sections = <<>> THEN <<>>
    ELSE IF Len(sections) = 1 THEN sections[1]
    ELSE sections[1] \o <<Newline, Newline>> \o JoinSections(Tail(sections))

\* the document's text, and the chunks the splitter may cut it into
DocumentText == <<"d">>
ChunkText(i) == <<"c">> \o NatStr(i)
SplitterChunks == {[i \in 1..n |-> ChunkText(i)] : n \in 1..MaxChunks}

\* what the chains answer when they return: the map chain the chunk's
\* summary with blanks around it, the reduce chain a quoted summary, the
\* structured chain a DocumentAnalysis
MapOutput(chunk) == <<" ", "s">> \o chunk \o <<" ">>
ReduceOutput == <<DoubleQuote, "r", DoubleQuote>>
StructuredOutput ==
    [summary |-> <<Apostrophe, "s", Apostrophe>>,
     key_topics |-> <<"Leave">>,
     document_type |-> "Policy",
     published_date |-> "01-31-2024"]

\* what generate_single_shot_analysis returns when the chain raises
DegradedAnalysis ==
    [summary |-> AnalysisFailedText,
     key_topics |-> <<>>,
     document_type |-> "Unknown",
     published_date |-> "00-00-0000"]

\* the result of the except branch that leaves the error out
FailedAnalysis_WithoutError(ps, e) ==
    [total_pages |-> Len(ps),
     total_tokens |-> SumTokenCounts(ps),
     summary |-> NoSummary,
     key_topics |-> <<>>,
     document_type |-> "Unknown",
     published_date |-> "00-00-0000",
     analysis_status |-> "failed"]

\* the result of the except branch of analyze_document_content
FailedAnalysis(ps, e) ==
    [total_pages |-> Len(ps),
     total_tokens |-> SumTokenCounts(ps),
     summary |-> NoSummary,
     key_topics |-> <<>>,
     document_type |-> "Unknown",
     published_date |-> "00-00-0000",
     analysis_status |-> "failed",
     error |-> e]

\* the result of the try branch, from what generate_single_shot_analysis
\* returned
SuccessfulAnalysis(ps, result) ==
    [total_pages |-> Len(ps),
     total_tokens |-> SumTokenCounts(ps),
     summary |-> clean_summary_text(result.summary),
     key_topics |-> result.key_topics,
     document_type |-> result.document_type,
     published_date |-> result.published_date,
     analysis_status |-> "success"]

\* a call of a chain: which, its input, whether it returned, and what
ChainCall(chain, input, ok, output) ==
    [chain |-> chain, input |-> input, ok |-> ok, output |-> output]

\* the calls of one chain, as positions in llm_calls
CallsOf(chain) == {k \in 1..Len(llm_calls) : llm_calls[k].chain = chain}

\* the token counts drawn: around half the limit, and the limit
AnalysedTokenCounts ==
    {0, SingleShotLimit \div 2 - 1, SingleShotLimit \div 2,
     SingleShotLimit \div 2 + 1, SingleShotLimit}

AnalysedPageLists ==
    UNION {[1..n -> [token_count : AnalysedTokenCounts]] :
               n \in 0..MaxAnalysedPages}

InitAnalysis ==
    /\ IdIdle
    /\ pages \in AnalysedPageLists
    /\ max_tokens_per_batch = 7500
    /\ max_items_per_batch = 2000
    /\ IndexIdle
    /\ EndpointIdle
    /\ CleanIdle
    /\ AnalysisIdle
    /\ TailIdle
    /\ full_markdown = DocumentText
    /\ tokenizer_ok = TRUE
    /\ page_records = <<>>
    /\ split_done = FALSE

\* get_azure_openai_client() raises: the except branch answers
ClientFails ==
    /\ analysis_stage = "idle"
    /\ analysis_stage' = "returned"
    /\ analysis' = FailedAnalysis(pages, "AZURE_OPENAI_ENDPOINT is required")
    /\ UNCHANGED <<content_chunks, chunk_summaries, llm_calls, summary_text,
                   analysis_result>>
    /\ UNCHANGED <<idVars, embedVars, indexVars, endpointVars, cleanVars,
                   splitVars, tailVars>>

\* the client is there and total_tokens < 100000: single-shot
RouteSingleShot ==
    /\ analysis_stage = "idle"
    /\ UsesSingleShot(SumTokenCounts(pages))
    /\ analysis_stage' = "structured"
    /\ UNCHANGED <<content_chunks, chunk_summaries, llm_calls, summary_text,
                   analysis_result, analysis>>
    /\ UNCHANGED <<idVars, embedVars, indexVars, endpointVars, cleanVars,
                   splitVars, tailVars>>

\* the client is there and total_tokens >= 100000: map-reduce; the content
\* is split above 100000 tokens and is one chunk otherwise
RouteMapReduce ==
    /\ analysis_stage = "idle"
    /\ ~UsesSingleShot(SumTokenCounts(pages))
    /\ analysis_stage' = "map"
    /\ content_chunks' \in IF SplitsContent(SumTokenCounts(pages))
                           THEN SplitterChunks ELSE {<<full_markdown>>}
    /\ UNCHANGED <<chunk_summaries, llm_calls, summary_text,
                   analysis_result, analysis>>
    /\ UNCHANGED <<idVars, embedVars, indexVars, endpointVars, cleanVars,
                   splitVars, tailVars>>

\* the 1-based number of the chunk the map loop is at
MapIndex == Cardinality(CallsOf("map")) + 1

\* the map loop's except branch that leaves the section out
MapChunkRaises_DropsSection ==
    /\ analysis_stage = "map"
    /\ MapIndex <= Len(content_chunks)
    /\ llm_calls' = Append(llm_calls,
           ChainCall("map", content_chunks[MapIndex], FALSE, <<>>))
    /\ UNCHANGED <<analysis_stage, content_chunks, chunk_summaries,
                   summary_text, analysis_result, analysis>>
    /\ UNCHANGED <<idVars, embedVars, indexVars, endpointVars, cleanVars,
                   splitVars, tailVars>>

\* the map chain returns the summary of the chunk
MapChunkReturns ==
    /\ analysis_stage = "map"
    /\ MapIndex <= Len(content_chunks)
    /\ llm_calls' = Append(llm_calls,
           ChainCall("map", content_chunks[MapIndex], TRUE,
                     MapOutput(content_chunks[MapIndex])))
    /\ chunk_summaries' = Append(chunk_summaries,
           SectionText(MapIndex, MapOutput(content_chunks[MapIndex])))
    /\ UNCHANGED <<analysis_stage, content_chunks, summary_text,
                   analysis_result, analysis>>
    /\ UNCHANGED <<idVars, embedVars, indexVars, endpointVars, cleanVars,
                   splitVars, tailVars>>

\* the map chain raises: the section is the placeholder
MapChunkRaises ==
    /\ analysis_stage = "map"
    /\ MapIndex <= Len(content_chunks)
    /\ llm_calls' = Append(llm_calls,
           ChainCall("map", content_chunks[MapIndex], FALSE, <<>>))
    /\ chunk_summaries' = Append(chunk_summaries, SectionPlaceholder(MapIndex))
    /\ UNCHANGED <<analysis_stage, content_chunks, summary_text,
                   analysis_result, analysis>>
    /\ UNCHANGED <<idVars, embedVars, indexVars, endpointVars, cleanVars,
                   splitVars, tailVars>>

\* the reduce chain returns: generate_map_reduce_summary returns the
\* cleaned summary
ReduceReturns ==
    /\ analysis_stage = "map"
    /\ MapIndex > Len(content_chunks)
    /\ llm_calls' = Append(llm_calls,
           ChainCall("reduce", JoinSections(chunk_summaries), TRUE,
                     ReduceOutput))
    /\ summary_text' = clean_summary_text(ReduceOutput)
    /\ analysis_stage' = "structured"
    /\ UNCHANGED <<content_chunks, chunk_summaries, analysis_result, analysis>>
    /\ UNCHANGED <<idVars, embedVars, indexVars, endpointVars, cleanVars,
                   splitVars, tailVars>>

\* the reduce chain raises: the except branch of analyze_document_content
\* answers
ReduceRaises ==
    /\ analysis_stage = "map"
    /\ MapIndex > Len(content_chunks)
    /\ llm_calls' = Append(llm_calls,
           ChainCall("reduce", JoinSections(chunk_summaries), FALSE, <<>>))
    /\ analysis_stage' = "returned"
    /\ analysis' = FailedAnalysis(pages, "Rate limit exceeded")
    /\ UNCHANGED <<content_chunks, chunk_summaries, summary_text,
                   analysis_result>>
    /\ UNCHANGED <<idVars, embedVars, indexVars, endpointVars, cleanVars,
                   splitVars, tailVars>>

\* the structured call that is always given the full text
StructuredInput_FullText == full_markdown

\* the content generate_single_shot_analysis is called with
StructuredInput ==
    IF UsesSingleShot(SumTokenCounts(pages)) THEN full_markdown
    ELSE summary_text

\* the structured chain returns a DocumentAnalysis
StructuredReturns ==
    /\ analysis_stage = "structured"
    /\ llm_calls' = Append(llm_calls,
           ChainCall("structured", StructuredInput, TRUE,
                     StructuredOutput.summary))
    /\ analysis_result' = StructuredOutput
    /\ analysis' = SuccessfulAnalysis(pages, StructuredOutput)
    /\ analysis_stage' = "returned"
    /\ UNCHANGED <<content_chunks, chunk_summaries, summary_text>>
    /\ UNCHANGED <<idVars, embedVars, indexVars, endpointVars, cleanVars,
                   splitVars, tailVars>>

\* the structured chain raises: generate_single_shot_analysis returns the
\* degraded result, and analyze_document_content goes on with it
StructuredRaises ==
    /\ analysis_stage = "structured"
    /\ llm_calls' = Append(llm_calls,
           ChainCall("structured", StructuredInput, FALSE, <<>>))
    /\ analysis_result' = DegradedAnalysis
    /\ analysis' = SuccessfulAnalysis(pages, DegradedAnalysis)
    /\ analysis_stage' = "returned"
    /\ UNCHANGED <<content_chunks, chunk_summaries, summary_text>>
    /\ UNCHANGED <<idVars, embedVars, indexVars, endpointVars, cleanVars,
                   splitVars, tailVars>>

NextAnalysis ==
    \/ ClientFails
    \/ RouteSingleShot
    \/ RouteMapReduce
    \/ MapChunkReturns
    \/ MapChunkRaises
    \/ ReduceReturns
    \/ ReduceRaises
    \/ StructuredReturns
    \/ StructuredRaises

SpecAnalysis == InitAnalysis /\ [][NextAnalysis]_vars

\* analyze_document_content has got its client and chosen its path
Routed ==
    \/ analysis_stage \in {"map", "structured"}
    \/ analysis_stage = "returned" /\ llm_calls # <<>>

\* C14: below 100000 total tokens only the structured chain is called, on
\* the document itself; from 100000 on, 100000 included, the map and
\* reduce chains are called first and the structured chain is never
\* called on the document itself.
C14_RoutesOnTotalTokens ==
    Routed =>
        IF SumTokenCounts(pages) < SingleShotLimit
        THEN /\ content_chunks = <<>>
             /\ CallsOf("map") = {} /\ CallsOf("reduce") = {}
             /\ analysis_stage = "returned" =>
                    /\ Len(llm_calls) = 1
                    /\ llm_calls[1].chain = "structured"
                    /\ llm_calls[1].input = full_markdown
        ELSE /\ content_chunks # <<>>
             /\ \A k \in CallsOf("structured") :
                    /\ k > 1
                    /\ llm_calls[k - 1].chain = "reduce"
                    /\ llm_calls[k - 1].ok
                    /\ llm_calls[k].input = summary_text
             /\ analysis_stage \in {"structured", "returned"} =>
                    /\ CallsOf("map") # {}
                    /\ Cardinality(CallsOf("reduce")) = 1

\* C14's case: exactly 100000 tokens, and the map, reduce and structured
\* chains have been called in turn
C14_Witness ==
    /\ analysis_stage = "returned"
    /\ SumTokenCounts(pages) = SingleShotLimit
    /\ Len(llm_calls) = 3
    /\ llm_calls[1].chain = "map"
    /\ llm_calls[2].chain = "reduce"
    /\ llm_calls[3].chain = "structured"

\* C15, as stated: when the structured chain raised, the result returned
\* has analysis_status = failed.
C15_StructuredFailurePropagates ==
    /\ analysis_stage = "returned"
    /\ \E k \in CallsOf("structured") : ~llm_calls[k].ok
    => analysis.analysis_status = "failed"

\* the result has every field of a result, and the error exactly when it
\* is a failed one
WellFormedAnalysis(a) ==
    /\ {"total_pages", "total_tokens", "summary", "key_topics",
        "document_type", "published_date", "analysis_status"}
           \subseteq DOMAIN a
    /\ a.analysis_status \in {"success", "failed"}
    /\ a.total_pages = Len(pages)
    /\ a.total_tokens = SumTokenCounts(pages)
    /\ "error" \in DOMAIN a <=> a.analysis_status = "failed"

\* a failure reached analyze_document_content: no client, or the reduce
\* chain raised
FailureReachedAnalyzer ==
    \/ llm_calls = <<>>
    \/ \E k \in CallsOf("reduce") : ~llm_calls[k].ok

\* C16: whatever the client and the chains do, the analyzer is at one of
\* its calls or has returned, never left by an exception, and what it
\* returns is a well-formed result; when a failure reached it the result
\* is failed, with no summary, no key topics and an error; the error is
\* there exactly when the result is failed.
C16_AlwaysWellFormedResult ==
    /\ analysis_stage \in {"idle", "map", "structured", "returned"}
    /\ analysis_stage # "returned" => analysis = NoAnalysis
    /\ analysis_stage = "returned" =>
           /\ WellFormedAnalysis(analysis)
           /\ FailureReachedAnalyzer =>
                  /\ analysis.analysis_status = "failed"
                  /\ analysis.summary = NoSummary
                  /\ analysis.key_topics = <<>>
                  /\ analysis.error # ""

\* C16's case: a map call raised, then the reduce chain raised, and the
\* failed result was returned
C16_Witness ==
    /\ analysis_stage = "returned"
    /\ \E k \in CallsOf("map") : ~llm_calls[k].ok
    /\ \E k \in CallsOf("reduce") : ~llm_calls[k].ok
    /\ analysis.analysis_status = "failed"
    /\ "error" \in DOMAIN analysis

\* the map loop is over
MapPhaseOver ==
    /\ content_chunks # <<>>
    /\ \/ analysis_stage \in {"structured", "returned"}
       \/ analysis_stage = "map" /\ MapIndex > Len(content_chunks)

\* C17: the i-th call of the map chain is for the i-th chunk; section i is
\* the placeholder exactly when that call raised and the chunk's summary
\* otherwise; once the loop is over every chunk has been processed, and
\* the reduce chain is called at most once, and once the analyzer has
\* gone on exactly once, on all N sections joined in chunk order.
C17_MapFailureIsIsolated ==
    /\ \A i \in 1..Len(llm_calls) :
           llm_calls[i].chain = "map" =>
               /\ i <= Len(content_chunks)
               /\ llm_calls[i].input = content_chunks[i]
               /\ i <= Len(chunk_summaries)
               /\ chunk_summaries[i] =
                      IF llm_calls[i].ok
                      THEN SectionText(i, llm_calls[i].output)
                      ELSE SectionPlaceholder(i)
    /\ Cardinality(CallsOf("reduce")) <= 1
    /\ MapPhaseOver =>
           /\ Len(chunk_summaries) = Len(content_chunks)
           /\ Cardinality(CallsOf("map")) = Len(content_chunks)
    /\ content_chunks # <<>> /\ analysis_stage \in {"structured", "returned"} =>
           /\ CallsOf("reduce") = {Len(content_chunks) + 1}
           /\ llm_calls[Len(content_chunks) + 1].input
                  = JoinSections(chunk_summaries)

\* C17's case: three chunks, the map chain raised for the second only, and
\* the reduce chain got the three sections
C17_Witness ==
    /\ Len(content_chunks) = 3
    /\ analysis_stage = "returned"
    /\ llm_calls[1].ok /\ ~llm_calls[2].ok /\ llm_calls[3].ok
    /\ chunk_summaries[2] = SectionPlaceholder(2)
    /\ chunk_summaries[3] = SectionText(3, MapOutput(ChunkText(3)))
    /\ llm_calls[4].chain = "reduce"
    /\ llm_calls[4].input =
           chunk_summaries[1] \o <<Newline, Newline>> \o chunk_summaries[2]
               \o <<Newline, Newline>> \o chunk_summaries[3]

\* the calls made so far are the first calls of: one map call per chunk in
\* chunk order, one reduce call, one structured call on the cleaned
\* output of the reduce call
CallsFollowMapReduceOrder ==
    /\ Len(llm_calls) <= Len(content_chunks) + 2
    /\ \A k \in 1..Len(llm_calls) :
           IF k <= Len(content_chunks)
           THEN /\ llm_calls[k].chain = "map"
                /\ llm_calls[k].input = content_chunks[k]
           ELSE IF k = Len(content_chunks) + 1
           THEN llm_calls[k].chain = "reduce"
           ELSE /\ llm_calls[k].chain = "structured"
                /\ llm_calls[k - 1].ok
                /\ llm_calls[k].input
                       = clean_summary_text(llm_calls[k - 1].output)

\* C25, as stated: on the map-reduce path the analyzer returns after N map
\* calls, one reduce call and one structured call, in this order.
C25_MapReduceCallOrder_AsStated ==
    content_chunks # <<>> =>
        /\ CallsFollowMapReduceOrder
        /\ SumTokenCounts(pages) = SingleShotLimit
               => content_chunks = <<full_markdown>>
        /\ analysis_stage = "returned"
               => Len(llm_calls) = Len(content_chunks) + 2

\* C25: on the map-reduce path the calls are N map calls in chunk order,
\* one per chunk and none repeated (N = 1, on the whole text, at exactly
\* 100000 tokens), then one reduce call; if the reduce call returns, one
\* structured call on the cleaned reduced summary follows and the
\* analyzer returns after it; if the reduce call raises, no structured
\* call is made and the analyzer returns a failed result.
C25_MapReduceCallOrder ==
    content_chunks # <<>> =>
        /\ CallsFollowMapReduceOrder
        /\ SumTokenCounts(pages) = SingleShotLimit
               => content_chunks = <<full_markdown>>
        /\ analysis_stage = "returned" =>
               IF llm_calls[Len(content_chunks) + 1].ok
               THEN Len(llm_calls) = Len(content_chunks) + 2
               ELSE /\ Len(llm_calls) = Len(content_chunks) + 1
                    /\ analysis.analysis_status = "failed"

\* C25's case: two chunks, of which the first could not be summarised, and
\* the structured call got the cleaned reduced summary, not the document
C25_Witness ==
    /\ analysis_stage = "returned"
    /\ Len(content_chunks) = 2
    /\ Len(llm_calls) = 4
    /\ ~llm_calls[1].ok /\ llm_calls[2].ok /\ llm_calls[3].ok
    /\ llm_calls[4].chain = "structured"
    /\ llm_calls[4].input = <<"r">>
    /\ llm_calls[4].input # full_markdown

(***************************************************************************)
(* split_markdown_by_pages (function_app.py).  A markdown is a sequence of *)
(* characters and of the pieces of the HTML comments of Document           *)
(* Intelligence, each piece standing for its characters.                   *)
(***************************************************************************)
PageBreak == "<!-- PageBreak -->"
MarkerOpen == "<!-- Page"
NumberKey == "Number=\""
HeaderKey == "Header=\""
FooterKey == "Footer=\""
MarkerClose == "\" -->"

\* the pieces that hold a double quote
QuotePieces == {NumberKey, HeaderKey, FooterKey, MarkerClose}

\* "0" .. "9"
Digits == {HexDigits[n] : n \in 1..10}

\* how many characters a piece stands for
CharLength(piece) ==
    CASE piece = PageBreak -> 18
      [] piece = MarkerOpen -> 9
      [] piece \in {NumberKey, HeaderKey, FooterKey} -> 8
      [] piece = MarkerClose -> 5
      [] OTHER -> 1

RECURSIVE TextLength(_)
\* len(text), in characters
TextLength(s) ==
    IF s = <<>> THEN 0 ELSE CharLength(Head(s)) + TextLength(Tail(s))

RECURSIVE SplitOnPageBreak(_)
\* full_markdown.split('<!-- PageBreak -->')
SplitOnPageBreak(s) ==
    IF Find(s, PageBreak, 0) = -1 THEN <<s>>
    ELSE <<PyPrefix(s, Find(s, PageBreak, 0))>>
             \o SplitOnPageBreak(PySuffixFrom(s, Find(s, PageBreak, 0) + 1))

\* the least position from p on whose piece is not in the set, or
\* Len(s) + 1
FirstNotIn(s, p, set) ==
    Least({q \in p..Len(s) : s[q] \notin set} \cup {Len(s) + 1})

\* the least position from p on whose piece is in the set, or Len(s) + 1
FirstIn(s, p, set) ==
    Least({q \in p..Len(s) : s[q] \in set} \cup {Len(s) + 1})

\* where a match of <!-- (PageNumber|PageHeader|PageFooter)="[^"]*" -->
\* that begins at position p ends, or 0 if none begins there
MarkerEnd(s, p) ==
    IF /\ p + 2 <= Len(s)
       /\ s[p] = MarkerOpen
       /\ s[p + 1] \in {NumberKey, HeaderKey, FooterKey}
       /\ FirstIn(s, p + 2, QuotePieces) <= Len(s)
       /\ s[FirstIn(s, p + 2, QuotePieces)] = MarkerClose
    THEN FirstIn(s, p + 2, QuotePieces)
    ELSE 0

\* where a match of <!-- PageNumber="(\d+)" --> that begins at position p
\* ends, or 0 if none begins there
NumberMarkerEnd(s, p) ==
    IF /\ p + 3 <= Len(s)
       /\ s[p] = MarkerOpen
       /\ s[p + 1] = NumberKey
       /\ s[p + 2] \in Digits
       /\ FirstNotIn(s, p + 2, Digits) <= Len(s)
       /\ s[FirstNotIn(s, p + 2, Digits)] = MarkerClose
    THEN FirstNotIn(s, p + 2, Digits)
    ELSE 0

\* the value of one decimal digit
DigitValue(c) == CHOOSE n \in 0..9 : HexDigits[n + 1] = c

RECURSIVE ParseInt(_)
\* int(digits)
ParseInt(digits) ==
    IF digits = <<>> THEN 0
    ELSE ParseInt(SubSeq(digits, 1, Len(digits) - 1)) * 10
             + DigitValue(digits[Len(digits)])

\* the positions where re.search finds a PageNumber marker with digits
NumberMarkers(s) == {p \in 1..Len(s) : NumberMarkerEnd(s, p) > 0}

\* page_number: the digits of the first such marker, or i + 1
PageNumberOf(section, i) ==
    IF NumberMarkers(section) = {} THEN i + 1
    ELSE ParseInt(SubSeq(section, Least(NumberMarkers(section)) + 2,
                         NumberMarkerEnd(section,
                                         Least(NumberMarkers(section))) - 1))

RECURSIVE RemoveMarkersFrom(_, _)
\* re.sub of the markers, each with the blanks after it, from position k
RemoveMarkersFrom(s, k) ==
    IF k > Len(s) THEN <<>>
    ELSE IF MarkerEnd(s, k) > 0
    THEN RemoveMarkersFrom(s, FirstNotIn(s, MarkerEnd(s, k) + 1, Whitespace))
    ELSE <<s[k]>> \o RemoveMarkersFrom(s, k + 1)

\* content: the section stripped, without its markers, stripped again
ContentOf(section) == Strip(RemoveMarkersFrom(Strip(section), 1))

\* count_tokens(text): the number of tokens of the encoding, taken as one
\* per piece, or len(text) // 4 when the encoding cannot be loaded
count_tokens(content, encoding_ok) ==
    IF encoding_ok THEN Len(content) ELSE TextLength(content) \div 4

\* the loop body that numbers a page by its place among the pages emitted
PageOfSection_ByEmitted(section, i, emitted, base_id, encoding_ok) ==
    IF Strip(section) = <<>> \/ ContentOf(section) = <<>> THEN <<>>
    ELSE <<[document_id |->
                generate_chunk_id_from_base(base_id, emitted + 1,
                                            DefaultMaxLength),
            page_number |-> emitted + 1,
            markdown_content |-> ContentOf(section),
            token_count |-> count_tokens(ContentOf(section), encoding_ok)]>>

\* the loop body for the section at index i (0-based): the page appended,
\* if any
PageOfSection(section, i, emitted, base_id, encoding_ok) ==
    IF Strip(section) = <<>> \/ ContentOf(section) = <<>> THEN <<>>
    ELSE <<[document_id |->
                generate_chunk_id_from_base(base_id, PageNumberOf(section, i),
                                            DefaultMaxLength),
            page_number |-> PageNumberOf(section, i),
            markdown_content |-> ContentOf(section),
            token_count |-> count_tokens(ContentOf(section), encoding_ok)]>>

RECURSIVE PagesUpTo(_, _, _, _)
\* pages after the first k sections
PagesUpTo(sections, k, base_id, encoding_ok) ==
    IF k = 0 THEN <<>>
    ELSE PagesUpTo(sections, k - 1, base_id, encoding_ok)
             \o PageOfSection(sections[k], k - 1,
                              Len(PagesUpTo(sections, k - 1, base_id,
                                            encoding_ok)),
                              base_id, encoding_ok)

\* split_markdown_by_pages(full_markdown, source_url), called at utcnow
split_markdown_by_pages(markdown, url, utcnow, encoding_ok) ==
    group_pages_for_batch_embedding(
        PagesUpTo(SplitOnPageBreak(markdown),
                  Len(SplitOnPageBreak(markdown)),
                  generate_base_document_id(url, DefaultMaxLength, utcnow),
                  encoding_ok),
        7500, 2000)

\* the pieces the markdowns drawn are made of: a page break, a letter, a
\* blank, an opening alone, whole markers, and the rest of a marker
MarkdownPieces ==
    {<<PageBreak>>, <<"a">>, <<" ">>, <<MarkerOpen>>,
     <<MarkerOpen, NumberKey, "2", MarkerClose>>,
     <<NumberKey, "0", MarkerClose>>,
     <<MarkerOpen, HeaderKey, "a", MarkerClose>>}

Markdowns ==
    {Concatenation(ps) :
         ps \in UNION {[1..n -> MarkdownPieces] : n \in 0..MaxPieces}}

InitSplit ==
    /\ IdIdle
    /\ EmbedIdle
    /\ IndexIdle
    /\ EndpointIdle
    /\ CleanIdle
    /\ AnalysisIdle
    /\ TailIdle
    /\ full_markdown \in Markdowns
    /\ tokenizer_ok \in BOOLEAN
    /\ page_records = <<>>
    /\ split_done = FALSE

\* split_markdown_by_pages(full_markdown) returns
CallSplitMarkdownByPages ==
    /\ ~split_done
    /\ split_done' = TRUE
    /\ page_records' = split_markdown_by_pages(full_markdown, source_url, now,
                                               tokenizer_ok)
    /\ UNCHANGED <<full_markdown, tokenizer_ok>>
    /\ UNCHANGED <<idVars, embedVars, indexVars, endpointVars, cleanVars,
                   analysisVars, tailVars>>

NextSplit == CallSplitMarkdownByPages

SpecSplit == InitSplit /\ [][NextSplit]_vars

\* the sections of the markdown
Sections == SplitOnPageBreak(full_markdown)

\* the 1-based positions of the sections that have content left once the
\* markers are stripped and the rest is trimmed
SectionsWithContent ==
    {i \in 1..Len(Sections) : ContentOf(Sections[i]) # <<>>}

\* the position of the k-th section with content
NthWithContent(k) ==
    CHOOSE i \in SectionsWithContent :
        Cardinality({j \in SectionsWithContent : j <= i}) = k

\* C19: the records are those of the sections with content, in section
\* order, and the page_number of each is the number of the section's first
\* PageNumber marker with digits if it has one, and otherwise the
\* section's 1-based position among all sections.
C19_PageNumberFromMarkerOrPosition ==
    split_done =>
        /\ Len(page_records) = Cardinality(SectionsWithContent)
        /\ \A k \in 1..Len(page_records) :
               /\ page_records[k].markdown_content
                      = ContentOf(Sections[NthWithContent(k)])
               /\ page_records[k].page_number =
                      IF NumberMarkers(Sections[NthWithContent(k)]) = {}
                      THEN NthWithContent(k)
                      ELSE ParseInt(SubSeq(
                               Sections[NthWithContent(k)],
                               Least(NumberMarkers(Sections[NthWithContent(k)])) + 2,
                               NumberMarkerEnd(
                                   Sections[NthWithContent(k)],
                                   Least(NumberMarkers(Sections[NthWithContent(k)]))) - 1))

\* C19's case: an empty section between two sections, so that the second
\* record is page 3
C19_Witness ==
    /\ split_done
    /\ Len(Sections) = 3
    /\ Len(page_records) = 2
    /\ page_records[1].page_number = 1
    /\ page_records[2].page_number = 3

\* the text holds a PageNumber, PageHeader or PageFooter marker
HoldsMarker(s) == \E p \in 1..Len(s) : MarkerEnd(s, p) > 0

\* C20, as stated: one record for each section with content and none for
\* the others; every record has content, not empty and free of markers, a
\* token_count >= 0 and a batch_index >= 0.
C20_OneCleanRecordPerSection ==
    split_done =>
        /\ Len(page_records) = Cardinality(SectionsWithContent)
        /\ \A k \in 1..Len(page_records) :
               /\ page_records[k].markdown_content # <<>>
               /\ ~HoldsMarker(page_records[k].markdown_content)
               /\ page_records[k].token_count >= 0
               /\ page_records[k].batch_index >= 0

\* C21, as stated: every record's page_number is a positive integer,
\* whatever digits the section's PageNumber marker holds.
C21_PageNumberIsPositive ==
    split_done =>
        \A k \in 1..Len(page_records) : page_records[k].page_number >= 1

\* C29, as stated: within one call no two records share a document_id, and
\* no two share a page_number.
C29_RecordsHaveDistinctIds ==
    split_done =>
        \A j, k \in 1..Len(page_records) :
            j # k =>
                /\ page_records[j].document_id # page_records[k].document_id
                /\ page_records[j].page_number # page_records[k].page_number

(***************************************************************************)
(* normalize_published_date_value (search_utils.py).  A value is None, a   *)
(* str, a datetime.datetime or something else; what the function answers   *)
(* is None or a str, unless it is left by an exception.  The texts hold    *)
(* ASCII digits only.                                                      *)
(***************************************************************************)
\* the return value None
NoDate == <<"None">>

\* the strings the function answers None for at once
Placeholders ==
    {<<"0", "0", "-", "0", "0", "-", "0", "0", "0", "0">>,
     <<"0", "0", "0", "0", "-", "0", "0", "-", "0", "0">>,
     <<"0", "0", "/", "0", "0", "/", "0", "0", "0", "0">>}

\* every character of the text is a decimal digit (\d)
IsDigits(t) == \A i \in 1..Len(t) : t[i] \in Digits

\* the text begins with \d{4}-\d{2}-\d{2}
HasIsoDatePrefix(s) ==
    /\ Len(s) >= 10
    /\ IsDigits(SubSeq(s, 1, 4)) /\ s[5] = "-"
    /\ IsDigits(SubSeq(s, 6, 7)) /\ s[8] = "-"
    /\ IsDigits(SubSeq(s, 9, 10))

\* re.match(r"^\d{4}-\d{2}-\d{2}T", s)
IsIsoDateTime(s) == HasIsoDatePrefix(s) /\ Len(s) >= 11 /\ s[11] = "T"

\* re.match(r"^\d{4}-\d{2}-\d{2}$", s), s holding no line break
IsIsoDate(s) == HasIsoDatePrefix(s) /\ Len(s) = 10

\* re.match(r"^\d{2}-\d{2}-\d{4}$", s), s holding no line break
IsDashedNumeric(s) ==
    /\ Len(s) = 10
    /\ IsDigits(SubSeq(s, 1, 2)) /\ s[3] = "-"
    /\ IsDigits(SubSeq(s, 4, 5)) /\ s[6] = "-"
    /\ IsDigits(SubSeq(s, 7, 10))

RECURSIVE SplitAt(_, _)
\* s.split(c)
SplitAt(s, c) ==
    IF Find(s, c, 0) = -1 THEN <<s>>
    ELSE <<PyPrefix(s, Find(s, c, 0))>>
             \o SplitAt(PySuffixFrom(s, Find(s, c, 0) + 1), c)

\* strptime's %Y: \d\d\d\d
IsYearText(t) == Len(t) = 4 /\ IsDigits(t)

\* strptime's %m: 1[0-2]|0[1-9]|[1-9]
IsMonthText(t) ==
    /\ Len(t) \in 1..2
    /\ IsDigits(t)
    /\ ParseInt(t) \in 1..12

\* strptime's %d: 3[01]|[12]\d|0[1-9]|[1-9]| [1-9]
IsDayText(t) ==
    \/ Len(t) \in 1..2 /\ IsDigits(t) /\ ParseInt(t) \in 1..31
    \/ Len(t) = 2 /\ t[1] = " " /\ t[2] \in Digits /\ t[2] # "0"

\* whether the text matches the directive
MatchesDirective(directive, t) ==
    CASE directive = "Y" -> IsYearText(t)
      [] directive = "m" -> IsMonthText(t)
      [] directive = "d" -> IsDayText(t)

\* int() of a matched text
FieldValue(t) == ParseInt(Strip(t))

IsLeapYear(y) == y % 4 = 0 /\ (y % 100 # 0 \/ y % 400 = 0)

DaysInMonth(y, m) ==
    IF m = 2 THEN (IF IsLeapYear(y) THEN 29 ELSE 28)
    ELSE IF m \in {4, 6, 9, 11} THEN 30 ELSE 31

\* the date exists in datetime's calendar (MINYEAR = 1, MAXYEAR = 9999)
IsDate(y, m, d) ==
    /\ y \in 1..9999
    /\ m \in 1..12
    /\ d \in 1..DaysInMonth(y, m)

\* date_formats with the day-first formats before the month-first ones
DateFormats_DayFirst ==
    <<[order |-> <<"Y", "m", "d">>, sep |-> "/"],
      [order |-> <<"d", "m", "Y">>, sep |-> "-"],
      [order |-> <<"m", "d", "Y">>, sep |-> "-"],
      [order |-> <<"d", "m", "Y">>, sep |-> "/"],
      [order |-> <<"m", "d", "Y">>, sep |-> "/"]>>

\* date_formats: %Y/%m/%d, %m-%d-%Y, %d-%m-%Y, %m/%d/%Y, %d/%m/%Y
DateFormats ==
    <<[order |-> <<"Y", "m", "d">>, sep |-> "/"],
      [order |-> <<"m", "d", "Y">>, sep |-> "-"],
      [order |-> <<"d", "m", "Y">>, sep |-> "-"],
      [order |-> <<"m", "d", "Y">>, sep |-> "/"],
      [order |-> <<"d", "m", "Y">>, sep |-> "/"]>>

\* %m-%d-%Y, the format of the retry
MonthFirstDashed == [order |-> <<"m", "d", "Y">>, sep |-> "-"]

\* the value of the field of the directive, the text being matched
FieldOf(s, fmt, directive) ==
    FieldValue(SplitAt(s, fmt.sep)[CHOOSE i \in 1..3 :
                                       fmt.order[i] = directive])

\* datetime.strptime(s, fmt) returns, rather than raising ValueError: the
\* text is the three fields with the separator between them, and they
\* make a date
StrptimeParses(s, fmt) ==
    /\ Len(SplitAt(s, fmt.sep)) = 3
    /\ \A i \in 1..3 : MatchesDirective(fmt.order[i], SplitAt(s, fmt.sep)[i])
    /\ IsDate(FieldOf(s, fmt, "Y"), FieldOf(s, fmt, "m"),
              FieldOf(s, fmt, "d"))

\* n as exactly four decimal digits
FourDigits(n) == TwoDigits(n \div 100) \o TwoDigits(n % 100)

\* n as exactly six decimal digits
SixDigits(n) == FourDigits(n \div 100) \o TwoDigits(n % 100)

\* dt.isoformat().replace("+00:00", "Z") of a datetime in UTC
IsoFormatZ(dt) ==
    FourDigits(dt.year) \o <<"-">> \o TwoDigits(dt.month) \o <<"-">>
        \o TwoDigits(dt.day) \o <<"T">> \o TwoDigits(dt.hour) \o <<":">>
        \o TwoDigits(dt.minute) \o <<":">> \o TwoDigits(dt.second)
        \o (IF dt.microsecond = 0 THEN <<>>
            ELSE <<".">> \o SixDigits(dt.microsecond))
        \o <<"Z">>

\* the datetime strptime returns, at midnight
StrptimeResult(s, fmt) ==
    [year |-> FieldOf(s, fmt, "Y"),
     month |-> FieldOf(s, fmt, "m"),
     day |-> FieldOf(s, fmt, "d"),
     hour |-> 0, minute |-> 0, second |-> 0, microsecond |-> 0]

\* the formats of date_formats that parse the text, as positions
ParsingFormats(s) ==
    {i \in 1..Len(DateFormats) : StrptimeParses(s, DateFormats[i])}

\* the function returned this value
Returned(value) == [ended |-> "returned", value |-> value]

\* the function was left by this exception
Raised(exception) == [ended |-> "raised", value |-> <<exception>>]

\* the function on the stripped, non-empty text s
normalize_text(s) ==
    IF s \in Placeholders THEN Returned(NoDate)
    ELSE IF IsIsoDateTime(s) THEN Returned(s)
    ELSE IF IsIsoDate(s)
    THEN Returned(s \o <<"T", "0", "0", ":", "0", "0", ":", "0", "0", "Z">>)
    ELSE IF ParsingFormats(s) # {}
    THEN Returned(IsoFormatZ(
             StrptimeResult(s, DateFormats[Least(ParsingFormats(s))])))
    ELSE IF IsDashedNumeric(s) /\ StrptimeParses(s, MonthFirstDashed)
    THEN Returned(IsoFormatZ(StrptimeResult(s, MonthFirstDashed)))
    ELSE Returned(NoDate)

\* the day before
DayBefore(dt) ==
    IF dt.day > 1 THEN [dt EXCEPT !.day = dt.day - 1]
    ELSE IF dt.month > 1
    THEN [dt EXCEPT !.month = dt.month - 1,
                    !.day = DaysInMonth(dt.year, dt.month - 1)]
    ELSE [dt EXCEPT !.year = dt.year - 1, !.month = 12, !.day = 31]

\* the day after
DayAfter(dt) ==
    IF dt.day < DaysInMonth(dt.year, dt.month)
    THEN [dt EXCEPT !.day = dt.day + 1]
    ELSE IF dt.month < 12
    THEN [dt EXCEPT !.month = dt.month + 1, !.day = 1]
    ELSE [dt EXCEPT !.year = dt.year + 1, !.month = 1, !.day = 1]

\* the wall clock of dt moved back by its offset from UTC, in whole hours
ShiftedToUtc(dt) ==
    IF dt.hour - dt.utcoffset < 0
    THEN [DayBefore(dt) EXCEPT !.hour = dt.hour - dt.utcoffset + 24]
    ELSE IF dt.hour - dt.utcoffset > 23
    THEN [DayAfter(dt) EXCEPT !.hour = dt.hour - dt.utcoffset - 24]
    ELSE [dt EXCEPT !.hour = dt.hour - dt.utcoffset]

\* the function on a datetime: a naive one is taken as UTC, an aware one
\* is converted, which raises OverflowError outside datetime's years
normalize_datetime(dt) ==
    IF ~dt.aware THEN Returned(IsoFormatZ(dt))
    ELSE IF ShiftedToUtc(dt).year \notin 1..9999 THEN Raised("OverflowError")
    ELSE Returned(IsoFormatZ(ShiftedToUtc(dt)))

\* normalize_published_date_value(v)
normalize_published_date_value(v) ==
    IF v.kind = "None" THEN Returned(NoDate)
    ELSE IF v.kind = "str"
    THEN (IF Strip(v.text) = <<>> THEN Returned(NoDate)
          ELSE normalize_text(Strip(v.text)))
    ELSE IF v.kind = "datetime" THEN normalize_datetime(v)
    ELSE Returned(NoDate)

\* the years, and the months, days and other short fields, the texts drawn
\* are made of
YearTexts ==
    {<<"0", "0", "0", "0">>, <<"2", "0", "2", "3">>, <<"2", "0", "2", "4">>}

ShortTexts ==
    {<<"0", "0">>, <<"0", "2">>, <<"1", "2">>, <<"1", "3">>, <<"2", "9">>,
     <<"3", "1">>, <<"5">>, <<" ", "5">>}

\* what follows the third field
Endings == {<<>>, <<"T">>, <<"T", "x">>, <<" ">>}

\* the texts drawn: three fields with '-' or '/' between them and an
\* ending, and a few that are no dates
DateTexts ==
    {a \o <<p>> \o b \o <<q>> \o c \o e :
         a \in YearTexts \cup ShortTexts, p \in {"-", "/"},
         b \in YearTexts \cup ShortTexts, q \in {"-", "/"},
         c \in YearTexts \cup ShortTexts, e \in Endings}
        \cup {<<>>, <<" ">>, <<"x">>, <<"x", "-", "x">>,
              <<"2", "0", "2", "4">>}

\* the datetimes drawn: naive ones, and aware ones up to MaxUtcOffset
\* hours from UTC, at both ends of datetime's years and in between
DateTimes ==
    {[kind |-> "datetime", year |-> ymd[1], month |-> ymd[2],
      day |-> ymd[3], hour |-> h, minute |-> 0, second |-> 0,
      microsecond |-> us, aware |-> aw, utcoffset |-> off] :
         ymd \in {<<1, 1, 1>>, <<2024, 3, 1>>, <<9999, 12, 31>>},
         h \in {0, 12, 23}, us \in {0, 123}, aw \in BOOLEAN,
         off \in (0 - MaxUtcOffset)..MaxUtcOffset}

\* the values drawn: None, a str, a datetime, and an int, a date, a list
DateValues ==
    {NoValue}
        \cup {[kind |-> "str", text |-> t] : t \in DateTexts}
        \cup {v \in DateTimes : v.aware \/ v.utcoffset = 0}
        \cup {[kind |-> k] : k \in {"int", "date", "list"}}

InitNormalize ==
    /\ IdIdle
    /\ EmbedIdle
    /\ IndexIdle
    /\ EndpointIdle
    /\ CleanIdle
    /\ AnalysisIdle
    /\ SplitIdle
    /\ val \in DateValues
    /\ normalized = NotNormalized
    /\ CacheIdle
    /\ ProcessIdle

\* normalize_published_date_value(val) returns or raises
CallNormalizePublishedDateValue ==
    /\ normalized = NotNormalized
    /\ normalized' = normalize_published_date_value(val)
    /\ UNCHANGED <<val, cacheVars, processVars>>
    /\ UNCHANGED <<idVars, embedVars, indexVars, endpointVars, cleanVars,
                   analysisVars, splitVars>>

NextNormalize == CallNormalizePublishedDateValue

SpecNormalize == InitNormalize /\ [][NextNormalize]_vars

\* "T00:00:00Z"
MidnightUtc == <<"T", "0", "0", ":", "0", "0", ":", "0", "0", "Z">>

\* the text is YYYY-MM-DDT00:00:00Z and YYYY-MM-DD is a date
IsCanonicalDate(t) ==
    /\ Len(t) = 20
    /\ HasIsoDatePrefix(t)
    /\ SubSeq(t, 11, 20) = MidnightUtc
    /\ IsDate(ParseInt(SubSeq(t, 1, 4)), ParseInt(SubSeq(t, 6, 7)),
              ParseInt(SubSeq(t, 9, 10)))

\* C22, as stated: whatever the value, what the function returns is null
\* or a text of the form YYYY-MM-DDT00:00:00Z that denotes a calendar date.
C22_ResultIsNullOrCanonical ==
    normalized.ended = "returned" =>
        normalized.value = NoDate \/ IsCanonicalDate(normalized.value)

\* the stripped text of a str value
StrippedText == Strip(val.text)

\* the text is in none of the recognized forms
IsUnrecognized(s) ==
    /\ ~IsIsoDateTime(s)
    /\ ~IsIsoDate(s)
    /\ \A i \in 1..Len(DateFormats) : ~StrptimeParses(s, DateFormats[i])

\* C23, as stated: the function is never left by an exception; None, a
\* blank text, a placeholder, a text in none of the recognized forms and a
\* value that is neither a str nor a datetime give null; a bare ISO date
\* gives the date with T00:00:00Z appended.
C23_NeverRaisesNullOnNoise ==
    normalized # NotNormalized =>
        /\ normalized.ended = "returned"
        /\ val.kind \notin {"str", "datetime"} => normalized.value = NoDate
        /\ val.kind = "str" =>
               /\ StrippedText = <<>> => normalized.value = NoDate
               /\ StrippedText \in Placeholders => normalized.value = NoDate
               /\ StrippedText # <<>> /\ IsUnrecognized(StrippedText)
                      => normalized.value = NoDate
               /\ IsIsoDate(StrippedText) /\ StrippedText \notin Placeholders
                      => normalized.value = StrippedText \o MidnightUtc

\* the date at UTC midnight, as a text
MidnightOf(y, m, d) ==
    FourDigits(y) \o <<"-">> \o TwoDigits(m) \o <<"-">> \o TwoDigits(d)
        \o MidnightUtc

\* the text is three fields with the separator between them, the third a
\* year of datetime's calendar
IsSeparatedDate(s, sep) ==
    /\ Len(SplitAt(s, sep)) = 3
    /\ IsYearText(SplitAt(s, sep)[3])
    /\ ParseInt(SplitAt(s, sep)[3]) >= 1

\* what the claim says of a text with this separator
ReadsMonthFirstElseDayFirst(s, sep) ==
    IsSeparatedDate(s, sep) =>
        /\ IsMonthText(SplitAt(s, sep)[1]) /\ IsMonthText(SplitAt(s, sep)[2])
               => normalized.value =
                      MidnightOf(ParseInt(SplitAt(s, sep)[3]),
                                 ParseInt(SplitAt(s, sep)[1]),
                                 ParseInt(SplitAt(s, sep)[2]))
        /\ (/\ IsDayText(SplitAt(s, sep)[1])
            /\ ~IsMonthText(SplitAt(s, sep)[1])
            /\ IsMonthText(SplitAt(s, sep)[2])
            /\ IsDate(FieldValue(SplitAt(s, sep)[3]),
                      FieldValue(SplitAt(s, sep)[2]),
                      FieldValue(SplitAt(s, sep)[1])))
               => normalized.value =
                      MidnightOf(FieldValue(SplitAt(s, sep)[3]),
                                 FieldValue(SplitAt(s, sep)[2]),
                                 FieldValue(SplitAt(s, sep)[1]))

\* C24: for a text in no ISO form and no placeholder, the result is that
\* of the first of YYYY/MM/DD, MM-DD-YYYY, DD-MM-YYYY, MM/DD/YYYY,
\* DD/MM/YYYY that parses it, at UTC midnight, and null if none does; so a
\* dashed or slashed date whose first two fields are both months is read
\* month-first, and one whose first field is a day but no month is read
\* day-first.
C24_FirstFormatWins ==
    /\ normalized # NotNormalized
    /\ val.kind = "str"
    /\ StrippedText # <<>>
    /\ StrippedText \notin Placeholders
    /\ ~IsIsoDateTime(StrippedText)
    /\ ~IsIsoDate(StrippedText)
    => /\ normalized.ended = "returned"
       /\ normalized.value =
              IF \A i \in 1..5 : ~StrptimeParses(StrippedText, DateFormats[i])
              THEN NoDate
              ELSE IsoFormatZ(StrptimeResult(
                       StrippedText,
                       DateFormats[Least({i \in 1..5 :
                           StrptimeParses(StrippedText, DateFormats[i])})]))
       /\ normalized.value = NoDate \/ IsCanonicalDate(normalized.value)
       /\ ReadsMonthFirstElseDayFirst(StrippedText, "-")
       /\ ReadsMonthFirstElseDayFirst(StrippedText, "/")

\* C24's case: 02-12-2024, which both MM-DD-YYYY and DD-MM-YYYY parse, is
\* read as the 12th of February
C24_Witness ==
    /\ val.kind = "str"
    /\ val.text = <<"0", "2", "-", "1", "2", "-", "2", "0", "2", "4">>
    /\ normalized.ended = "returned"
    /\ normalized.value =
           <<"2", "0", "2", "4", "-", "0", "2", "-", "1", "2", "T", "0", "0",
             ":", "0", "0", ":", "0", "0", "Z">>

(***************************************************************************)
(* The cached client getters: get_search_client (search_utils.py) and      *)
(* get_document_intelligence_client (function_app.py).  Each keeps its     *)
(* client in a module global that it checks, fills and reads again when it *)
(* returns.  Calls run on the worker's threads, so a call is a sequence of *)
(* steps, one per read or write of the global or of the environment, and   *)
(* the steps of different calls interleave.  A client is a handle, a       *)
(* positive number that no earlier construction gave.                      *)
(***************************************************************************)

\* a call that has just been entered
NewCall(g) ==
    [getter |-> g, pc |-> "check", built |-> NoClient, result |-> NoClient,
     error |-> "", started_filled |-> client_cache[g] # NoClient]

\* the getter of the i-th call
GetterOf(i) == getter_calls[i].getter

\* the i-th call moves on
Moved(i, call) == getter_calls' = [getter_calls EXCEPT ![i] = call]

\* a variant that never finds the global filled
CacheIsFilled_Never(g) == FALSE

\* _SEARCH_CLIENT is not None; _DOC_INTEL_CLIENT is not None
CacheIsFilled(g) == client_cache[g] # NoClient

\* the handle the next construction gives
FreshHandle ==
    1 + Cardinality({i \in 1..Len(getter_calls) :
                         getter_calls[i].built # NoClient})

\* a getter is called
EnterGetter(g) ==
    /\ Len(getter_calls) < MaxGetterCalls
    /\ getter_calls' = Append(getter_calls, NewCall(g))
    /\ UNCHANGED <<environ, client_cache>>

\* if <global> is not None: go to return it; otherwise go on
CheckCache(i) ==
    /\ getter_calls[i].pc = "check"
    /\ Moved(i, [getter_calls[i] EXCEPT
                     !.pc = IF CacheIsFilled(GetterOf(i))
                            THEN "return" ELSE "endpoint"])
    /\ UNCHANGED <<environ, client_cache>>

\* the endpoint (and, for the search client, the index name) is read
\* from the environment; ValueError if it is not set
ReadEndpoint(i) ==
    /\ getter_calls[i].pc = "endpoint"
    /\ Moved(i, IF environ[GetterOf(i)].endpoint
                THEN [getter_calls[i] EXCEPT !.pc = "identity"]
                ELSE [getter_calls[i] EXCEPT !.pc = "raised",
                                             !.error = "ValueError"])
    /\ UNCHANGED <<environ, client_cache>>

\* the try block: DefaultAzureCredential() and the client are constructed
ConstructWithIdentity(i) ==
    /\ getter_calls[i].pc = "identity"
    /\ Moved(i, [getter_calls[i] EXCEPT !.pc = "store",
                                        !.built = FreshHandle])
    /\ UNCHANGED <<environ, client_cache>>

\* the try block raises: a warning is logged and the key is tried
IdentityFails(i) ==
    /\ getter_calls[i].pc = "identity"
    /\ Moved(i, [getter_calls[i] EXCEPT !.pc = "key"])
    /\ UNCHANGED <<environ, client_cache>>

\* the key is read from the environment; ValueError if it is not set
ReadKey(i) ==
    /\ getter_calls[i].pc = "key"
    /\ Moved(i, IF environ[GetterOf(i)].key
                THEN [getter_calls[i] EXCEPT !.pc = "fallback"]
                ELSE [getter_calls[i] EXCEPT !.pc = "raised",
                                             !.error = "ValueError"])
    /\ UNCHANGED <<environ, client_cache>>

\* the client is constructed with AzureKeyCredential
ConstructWithKey(i) ==
    /\ getter_calls[i].pc = "fallback"
    /\ Moved(i, [getter_calls[i] EXCEPT !.pc = "store",
                                        !.built = FreshHandle])
    /\ UNCHANGED <<environ, client_cache>>

\* constructing the client with the key raises, outside any try
KeyConstructionRaises(i) ==
    /\ getter_calls[i].pc = "fallback"
    /\ Moved(i, [getter_calls[i] EXCEPT !.pc = "raised",
                                        !.error = "Exception"])
    /\ UNCHANGED <<environ, client_cache>>

\* <global> = the client constructed
StoreClient(i) ==
    /\ getter_calls[i].pc = "store"
    /\ client_cache' =
           [client_cache EXCEPT ![GetterOf(i)] = getter_calls[i].built]
    /\ Moved(i, [getter_calls[i] EXCEPT !.pc = "return"])
    /\ UNCHANGED environ

\* return <global>: the global is read again
ReturnClient(i) ==
    /\ getter_calls[i].pc = "return"
    /\ Moved(i, [getter_calls[i] EXCEPT
                     !.pc = "returned",
                     !.result = client_cache[GetterOf(i)]])
    /\ UNCHANGED <<environ, client_cache>>

\* the environments drawn: per getter, whether the endpoint and the key
\* are set
Environments == [Getters -> [endpoint : BOOLEAN, key : BOOLEAN]]

InitCache ==
    /\ IdIdle
    /\ EmbedIdle
    /\ IndexIdle
    /\ EndpointIdle
    /\ CleanIdle
    /\ AnalysisIdle
    /\ SplitIdle
    /\ DateIdle
    /\ ProcessIdle
    /\ environ \in Environments
    /\ client_cache = [g \in Getters |-> NoClient]
    /\ getter_calls = <<>>

\* the variables the getters leave alone
notCacheVars == <<idVars, embedVars, indexVars, endpointVars, cleanVars,
                  analysisVars, splitVars, dateVars, processVars>>

NextCache ==
    \/ \E g \in Getters : EnterGetter(g) /\ UNCHANGED notCacheVars
    \/ \E i \in 1..Len(getter_calls) :
           /\ \/ CheckCache(i)
              \/ ReadEndpoint(i)
              \/ ConstructWithIdentity(i)
              \/ IdentityFails(i)
              \/ ReadKey(i)
              \/ ConstructWithKey(i)
              \/ KeyConstructionRaises(i)
              \/ StoreClient(i)
              \/ ReturnClient(i)
           /\ UNCHANGED notCacheVars

SpecCache == InitCache /\ [][NextCache]_vars

\* the calls of getter g that have written their client to the global
StoredBy(g) ==
    {j \in 1..Len(getter_calls) :
         /\ getter_calls[j].getter = g
         /\ getter_calls[j].built # NoClient
         /\ getter_calls[j].pc \in {"return", "returned"}}

\* the handles the calls of g have written to the global
StoredHandles(g) == {getter_calls[j].built : j \in StoredBy(g)}

\* the i-th call failed for missing configuration
FailedForConfiguration(i) ==
    getter_calls[i].pc = "raised" /\ getter_calls[i].error = "ValueError"

\* what holds of the calls and the caches in every state
GetterCallsAreSound ==
    /\ \A g \in Getters :
           /\ client_cache[g] \in {NoClient} \cup StoredHandles(g)
           /\ StoredBy(g) # {} => client_cache[g] # NoClient
           /\ ~environ[g].endpoint => client_cache[g] = NoClient
    /\ \A i \in 1..Len(getter_calls) :
           /\ getter_calls[i].pc = "returned" =>
                  /\ getter_calls[i].result # NoClient
                  /\ getter_calls[i].result \in StoredHandles(GetterOf(i))
           /\ FailedForConfiguration(i) =>
                  /\ getter_calls[i].built = NoClient
                  /\ i \notin StoredBy(GetterOf(i))
                  /\ StoredBy(GetterOf(i)) = {}
                         => client_cache[GetterOf(i)] = NoClient
           /\ getter_calls[i].started_filled =>
                  /\ getter_calls[i].built = NoClient
                  /\ getter_calls[i].pc \in {"check", "return", "returned"}
                  /\ client_cache[GetterOf(i)] # NoClient

\* what holds of every step: a filled cache stays filled, a call that
\* fails leaves the cache as it is, and a call that started with the cache
\* filled returns what the cache holds
GetterStepsAreSound ==
    /\ \A g \in Getters :
           client_cache[g] # NoClient => client_cache'[g] # NoClient
    /\ \A i \in 1..Len(getter_calls) :
           /\ getter_calls[i].pc # "raised" /\ getter_calls'[i].pc = "raised"
                  => client_cache' = client_cache
           /\ /\ getter_calls[i].started_filled
              /\ getter_calls[i].pc # "returned"
              /\ getter_calls'[i].pc = "returned"
              => /\ getter_calls'[i].result = client_cache[GetterOf(i)]
                 /\ client_cache' = client_cache

RequestBodies == {<<>>, <<"b">>}

\* the source_url parameters drawn: absent, empty, and locators
RequestUrls == SomeUrls \cup {<<>>}

\* the markdowns the conversion returns, of up to MaxConvertedPieces pieces
ConvertedMarkdowns ==
    {Concatenation(ps) :
         ps \in UNION {[1..n -> MarkdownPieces] : n \in 0..MaxConvertedPieces}}

\* the dict with one more key
WithKey(dict, key, value) ==
    [k \in DOMAIN dict \cup {key} |-> IF k = key THEN value ELSE dict[k]]

\* the fallback summary of the except branch
FallbackSummary(ps, base_id, e) ==
    [base_document_id |-> base_id,
     total_pages |-> Len(ps),
     total_tokens |-> SumTokenCounts(ps),
     summary |-> NoSummary,
     key_topics |-> <<>>,
     document_type |-> "Unknown",
     analysis_status |-> "failed",
     error |-> e]

\* what analyze_document_content may return for the pages: a result of the
\* structured chain, a degraded one, or a failed one
AnalysisOutcomes(ps) ==
    {SuccessfulAnalysis(ps, StructuredOutput),
     SuccessfulAnalysis(ps, DegradedAnalysis),
     FailedAnalysis(ps, "Error")}

\* the variables the ingestion endpoint leaves alone
notProcessVars == <<embedVars, indexVars, cleanVars, analysisVars, dateVars,
                    cacheVars>>

\* the variables of the identifier generator but the clock
idArguments == <<last_call, called_at, source_url, page_number, max_length,
                 base_document_id, document_id, pinned, other_url, other_id>>

\* the variables of index_documents_endpoint but the response
indexingVars == <<validation_errors, body_type, stage, b_idx, submitted,
                  outcomes, all_results, total_indexed, total_failed>>

InitProcess ==
    /\ now = 0
    /\ last_call = "none"
    /\ called_at = 0
    /\ source_url \in RequestUrls
    /\ page_number = 1
    /\ max_length = DefaultMaxLength
    /\ base_document_id = <<>>
    /\ document_id = <<>>
    /\ pinned = NoCall
    /\ other_url = NoUrl
    /\ other_id = <<>>
    /\ EmbedIdle
    /\ IndexIdle
    /\ EndpointIdle
    /\ CleanIdle
    /\ AnalysisIdle
    /\ DateIdle
    /\ CacheIdle
    /\ full_markdown \in ConvertedMarkdowns
    /\ tokenizer_ok \in BOOLEAN
    /\ page_records = <<>>
    /\ split_done = FALSE
    /\ document_bytes \in RequestBodies
    /\ process_stage = "received"
    /\ document_summary = NoAnalysis

\* the endpoint answers with an error
AnswerError(status, e) ==
    /\ process_stage' = "responded"
    /\ response' = [status |-> status, error |-> e]
    /\ UNCHANGED <<now, idArguments, indexingVars, splitVars, document_bytes,
                   document_summary, notProcessVars>>

\* if not req.get_body(): 400
RejectEmptyBody ==
    /\ process_stage = "received"
    /\ document_bytes = <<>>
    /\ AnswerError(400, "Request body is empty")

\* get_document_intelligence_client() raises ValueError: 500
ClientNotConfigured ==
    /\ process_stage = "received"
    /\ document_bytes # <<>>
    /\ AnswerError(500, "Configuration error")

\* get_document_intelligence_client() returns and the document is sent
BeginAnalyzeDocument ==
    /\ process_stage = "received"
    /\ document_bytes # <<>>
    /\ process_stage' = "converting"
    /\ UNCHANGED <<now, idArguments, endpointVars, splitVars, document_bytes,
                   document_summary, notProcessVars>>

\* begin_analyze_document or poller.result() raises an AzureError: 502
ConversionFails ==
    /\ process_stage = "converting"
    /\ AnswerError(502, "Document processing failed")

\* poller.result() returns, and pages = split_markdown_by_pages(...)
SplitPages ==
    /\ process_stage = "converting"
    /\ process_stage' = "analysis"
    /\ page_records' = split_markdown_by_pages(full_markdown, source_url, now,
                                               tokenizer_ok)
    /\ split_done' = TRUE
    /\ UNCHANGED <<now, idArguments, endpointVars, full_markdown, tokenizer_ok,
                   document_bytes, document_summary, notProcessVars>>

\* generate_base_document_id(source_url) of the summary: a call of its own
SummaryBaseId ==
    generate_base_document_id(source_url, DefaultMaxLength, now)

\* analyze_document_content returns and the base id is added to the summary
AnalysisReturns ==
    /\ process_stage = "analysis"
    /\ process_stage' = "summarized"
    /\ \E a \in AnalysisOutcomes(page_records) :
           document_summary' = WithKey(a, "base_document_id", SummaryBaseId)
    /\ UNCHANGED <<now, idArguments, endpointVars, splitVars, document_bytes,
                   notProcessVars>>

\* the try block raises: the fallback summary
AnalysisRaises ==
    /\ process_stage = "analysis"
    /\ process_stage' = "summarized"
    /\ document_summary' = FallbackSummary(page_records, SummaryBaseId, "Error")
    /\ UNCHANGED <<now, idArguments, endpointVars, splitVars, document_bytes,
                   notProcessVars>>

\* return http_json(response_data, 200)
RespondWithPages ==
    /\ process_stage = "summarized"
    /\ process_stage' = "responded"
    /\ response' = [status |-> 200,
                    document_summary |-> document_summary,
                    pages |-> page_records]
    /\ UNCHANGED <<now, idArguments, indexingVars, splitVars, document_bytes,
                   document_summary, notProcessVars>>

NextProcess ==
    \/ Tick
    \/ RejectEmptyBody
    \/ ClientNotConfigured
    \/ BeginAnalyzeDocument
    \/ ConversionFails
    \/ SplitPages
    \/ AnalysisReturns
    \/ AnalysisRaises
    \/ RespondWithPages

SpecProcess == InitProcess /\ [][NextProcess]_vars

\* the response is a successful ingestion response
IngestionSucceeded == process_stage = "responded" /\ response.status = 200

\* the summary counts the pages returned and their tokens
SummaryCountsPages ==
    /\ response.document_summary.total_pages = Len(response.pages)
    /\ response.document_summary.total_tokens = SumTokenCounts(response.pages)

\* every page's id is the summary's base id, "_chunk_" and the page number
PageIdsFollowSummary ==
    \A k \in 1..Len(response.pages) :
        response.pages[k].document_id =
            response.document_summary.base_document_id
                \o ChunkSuffix(response.pages[k].page_number)

\* C30, as stated: in a successful ingestion response, with or without a
\* source locator and whether the analysis succeeded or failed, every
\* page's document_id is document_summary.base_document_id followed by
\* "_chunk_" and the page's number, total_pages is the number of pages and
\* total_tokens the sum of their token counts.
C30_SummaryMatchesPages ==
    IngestionSucceeded => SummaryCountsPages /\ PageIdsFollowSummary
====
